---- MODULE Spec2Model ----
(***************************************************************************)
(* Conversion of a v2 (Swagger 2.0) operation and of v2 schemas to their   *)
(* OpenAPI v3 counterparts, as done by paperclip's core/src/v3, and the    *)
(* building of a v2 schema from a type declaration, as done by the code    *)
(* that paperclip's macros/src/actix.rs generates for Apiv2Schema.         *)
(*                                                                         *)
(* Strings that the code orders or parses (response keys, security scheme  *)
(* names) are sequences of ASCII codes, so that BTreeMap iteration order   *)
(* and str::parse::<u16> are computed and not assumed.                     *)
(*                                                                         *)
(* Option<T> is a sequence of length at most one: None is <<>> and         *)
(* Some(x) is <<x>>.  An IndexMap is a sequence of [key, value] entries in *)
(* insertion order; a BTreeMap is a function iterated in key order.        *)
(***************************************************************************)
EXTENDS Integers, Sequences, FiniteSets, TLC

VARIABLES
    v2,            \* the v2::Operation being converted
    pc,            \* position inside From<v2::Operation>::from
    idx,           \* index of the next parameter of v2.parameters to visit
    request_body,  \* Option<openapiv3::RequestBody>, local of from()
    form_data,     \* Option<openapiv3::AnySchema>, local of from()
    parameters,    \* the parameters collected so far by filter_map
    body_slot,     \* Option<ReferenceOr<RequestBody>>, the second request_body
    v3,            \* Option<openapiv3::Operation>, the value returned
    debug_assertions,  \* cfg!(debug_assertions) of the build that runs
    source,        \* the v2 schema or Items descriptor given to a From impl
    result,        \* Option of what that From impl returned, or of a panic
    item_ast,      \* the type declaration given to emit_v2_definition
    builder_pc,    \* position inside the generated raw_schema()
    field_idx,     \* index of the next field or variant of item_ast to visit
    schema_raw,    \* the local `schema` of the generated raw_schema()
    item_attrs,    \* the attributes given to SerdeProps::from_item_attrs
    attrs_pc,      \* position inside from_item_attrs
    attr_idx,      \* index of the next attribute of item_attrs to visit
    meta_idx,      \* index of the next nested meta of that attribute
    props,         \* the local `props` of from_item_attrs
    enum_tag,      \* the local `enum_tag`
    enum_content_tag,  \* the local `enum_content_tag`
    error_attrs,   \* the attribute list given to emit_v2_errors
    errors_pc,     \* position inside emit_v2_errors
    error_idx,     \* index of the next attribute of error_attrs to visit
    code_list,     \* the accumulator `list` of the fold over the attributes
    default_schema,    \* the local `default_schema`
    diagnostics,   \* what emit_error! and emit_warning! have reported
    error_codes,   \* the local `error_codes`
    error_map      \* the pairs written into ERROR_MAP

schema_vars == <<debug_assertions, source, result>>

builder_vars == <<item_ast, builder_pc, field_idx, schema_raw>>

serde_vars == <<item_attrs, attrs_pc, attr_idx, meta_idx, props, enum_tag, enum_content_tag>>

errors_vars == <<error_attrs, errors_pc, error_idx, code_list, default_schema, diagnostics,
                 error_codes, error_map>>

macro_vars == <<serde_vars, errors_vars>>

vars == <<v2, pc, idx, request_body, form_data, parameters, body_slot, v3, schema_vars,
          builder_vars, macro_vars>>

-----------------------------------------------------------------------------
(* Bounds *)

\* Deepest nesting of array items in an enumerated schema or Items descriptor.
MaxDepth == 1

\* Longest parameter list of an enumerated operation.
MaxParameters == 3

\* Largest number of response keys of an enumerated operation.
MaxResponses == 3

\* Largest number of security requirement sets of an enumerated operation.
MaxSecurity == 2

\* Largest number of fields of a struct or variant, and of variants of an enum.
MaxFields == 2

\* Largest number of type parameters of a generic type.
MaxTypeParams == 2

\* Largest number of attributes of an item.
MaxAttrs == 3

\* The attributes of one #[api_v2_errors(..)].
MaxErrorAttrs == 3

-----------------------------------------------------------------------------
(* Option, ReferenceOr, IndexMap, BTreeMap *)

None == <<>>
Some(x) == <<x>>
IsSome(o) == o # <<>>
Unwrap(o) == o[1]

Item(x) == [kind |-> "Item", value |-> x]
Reference(r) == [kind |-> "Reference", value |-> r]

IndexMapNew == <<>>

IndexMapKeys(m) == {m[j].key : j \in DOMAIN m}

IndexMapInsert(m, k, v) ==
    IF \E j \in DOMAIN m : m[j].key = k
    THEN [j \in DOMAIN m |-> IF m[j].key = k THEN [key |-> k, value |-> v] ELSE m[j]]
    ELSE Append(m, [key |-> k, value |-> v])

IndexMapGet(m, k) == (m[CHOOSE j \in DOMAIN m : m[j].key = k]).value

\* Byte-wise lexicographic order of two strings, the Ord of String.
LexLess(a, b) ==
    \E i \in 1..Len(b) :
        /\ \A j \in 1..(i - 1) : j <= Len(a) /\ a[j] = b[j]
        /\ i > Len(a) \/ a[i] < b[i]

RECURSIVE SortedKeys(_)
SortedKeys(S) ==
    IF S = {} THEN <<>>
    ELSE LET m == CHOOSE x \in S : \A y \in S : x = y \/ LexLess(x, y)
         IN  <<m>> \o SortedKeys(S \ {m})

\* The keys of a BTreeMap in the order .iter() yields them.
BTreeMapIter(m) == SortedKeys(DOMAIN m)

-----------------------------------------------------------------------------
(* The v2 operations that are converted *)

Str200 == <<50, 48, 48>>                \* "200"
Str404 == <<52, 48, 52>>                \* "404"
StrDefault == <<100, 101, 102, 97, 117, 108, 116>>   \* "default"
Str0200 == <<48, 50, 48, 48>>           \* "0200"
StrPlus200 == <<43, 50, 48, 48>>        \* "+200"
Str65535 == <<54, 53, 53, 51, 53>>      \* "65535"
Str65536 == <<54, 53, 53, 51, 54>>      \* "65536"
StrEmpty == <<>>                        \* ""
StrMinus1 == <<45, 49>>                 \* "-1"
Str2XX == <<50, 88, 88>>                \* "2XX"

ResponseKeys ==
    {Str200, Str404, StrDefault, Str0200, StrPlus200, Str65535, Str65536,
     StrEmpty, StrMinus1, Str2XX}

StrApiKey == <<97, 112, 105>>           \* "api"
StrJwt == <<106, 119, 116>>             \* "jwt"

\* A schema as the v3 side holds it: schema_data and schema_kind.
SchemaDataDefault ==
    [example |-> None, title |-> None, description |-> None, extensions |-> <<>>]

TypeSchema(t) ==
    [schema_data |-> SchemaDataDefault,
     schema_kind |-> [kind |-> "Type", value |-> [type |-> t]]]

V2Reference(n) ==
    [kind |-> "Reference", in_ |-> "none", name |-> n, required |-> FALSE,
     description |-> None, schema |-> None]

V2Parameter(in, n, req, desc, sch) ==
    [kind |-> "Parameter", in_ |-> in, name |-> n, required |-> req,
     description |-> desc, schema |-> sch]

PassthroughParameters ==
    {V2Reference("#/parameters/limit"),
     V2Parameter("query", "q", FALSE, None, None),
     V2Parameter("path", "id", TRUE, None, None),
     V2Parameter("header", "h", FALSE, None, None)}

BodyParameters ==
    {V2Parameter("body", "b1", TRUE, Some("first body"), Some(Reference("Pet"))),
     V2Parameter("body", "b2", FALSE, Some("second body"), Some(Item(TypeSchema("Object"))))}

FormParameters ==
    {V2Parameter("formData", "a", FALSE, None, Some(Item(TypeSchema("String")))),
     V2Parameter("formData", "a", TRUE, None, Some(Item(TypeSchema("Integer")))),
     V2Parameter("formData", "b", FALSE, None, Some(Item(TypeSchema("String")))),
     V2Parameter("formData", "b", TRUE, None, Some(Item(TypeSchema("String")))),
     V2Parameter("formData", "c", FALSE, None, Some(Reference("Tag"))),
     V2Parameter("formData", "c", TRUE, None, Some(Reference("Tag"))),
     V2Parameter("formData", "d", TRUE, None, None)}

ParameterUniverse == PassthroughParameters \cup BodyParameters \cup FormParameters

MediaRange(m) == [mime |-> m]

\* Option<BTreeSet<MediaRange>>, each set listed in its iteration order.
ConsumesUniverse ==
    {None,
     Some(<<>>),
     Some(<<MediaRange("application/json")>>),
     Some(<<MediaRange("application/json"), MediaRange("multipart/form-data")>>)}

\* BTreeMap<String, Vec<String>>: one security requirement set.
SecurityRequirements ==
    {[k \in {} |-> <<>>],
     [k \in {StrJwt} |-> <<>>],
     [k \in {StrJwt, StrApiKey} |-> IF k = StrJwt THEN <<"write", "read">> ELSE <<"read">>]}

ResponseKeySets == {T \in SUBSET ResponseKeys : Cardinality(T) <= MaxResponses}

V2Operation(c, ps, rs, sec) ==
    [tags |-> <<"pets">>, summary |-> Some("List pets"), description |-> None,
     operation_id |-> Some("listPets"), deprecated |-> FALSE,
     extensions |-> <<[key |-> "x-internal", value |-> "true"]>>,
     consumes |-> c, parameters |-> ps, responses |-> rs, security |-> sec]

\* The operations enumerated vary in their parameter list and accepted media
\* types, with one fixed response map and no security ...
ParameterOperation(op) ==
    \E c \in ConsumesUniverse, n \in 0..MaxParameters :
        \E ps \in [1..n -> ParameterUniverse] :
            op = V2Operation(c, ps, [k \in {Str200} |-> [description |-> k]], <<>>)

\* ... or in their response map and security list, with one fixed parameter.
ResponseOperation(op) ==
    \E S \in ResponseKeySets, n \in 0..MaxSecurity :
        \E sec \in [1..n -> SecurityRequirements] :
            op = V2Operation(None, <<V2Parameter("query", "q", FALSE, None, None)>>,
                             [k \in S |-> [description |-> k]], sec)

\* ... or in the fields the conversion copies or resets, with one fixed
\* parameter and response.
OperationTags == {<<>>, <<"pets">>, <<"pets", "store">>}

OperationExtensions == {<<>>, <<[key |-> "x-internal", value |-> "true"]>>}

MetadataOperation(op) ==
    \E t \in OperationTags, s \in {None, Some("List pets")},
       d \in {None, Some("All the pets")}, o \in {None, Some("listPets")},
       dep \in BOOLEAN, x \in OperationExtensions :
        op = [V2Operation(None, <<V2Parameter("query", "q", FALSE, None, None)>>,
                          [k \in {Str200} |-> [description |-> k]], <<>>)
                EXCEPT !.tags = t, !.summary = s, !.description = d,
                       !.operation_id = o, !.deprecated = dep, !.extensions = x]

-----------------------------------------------------------------------------
(* Conversions the operation conversion calls *)

\* From<&v2::Reference>: a direct reference stays a reference.
ReferenceInto(p) == Reference(p.name)

\* The openapiv3::Parameter of a path, query or header parameter.
V3Parameter(p) ==
    [location |-> p.in_, name |-> p.name, required |-> p.required,
     description |-> p.description]

\* The openapiv3::RequestBody of a body parameter.
RequestBodyOf(p) ==
    [description |-> p.description,
     content |-> <<[key |-> "application/json", value |-> [schema |-> p.schema]]>>,
     required |-> p.required]

\* From<v2::DefaultParameterRaw> for
\* Either<Parameter, Either<RequestBody, Option<ReferenceOr<Schema>>>>.
ParameterInto(p) ==
    CASE p.in_ \in {"path", "query", "header"} ->
            [either |-> "Left", value |-> V3Parameter(p)]
      [] p.in_ = "body" ->
            [either |-> "RightLeft", value |-> RequestBodyOf(p)]
      [] p.in_ = "formData" ->
            [either |-> "RightRight", value |-> p.schema]

\* Box::new on the Item side, the reference kept as it is.
BoxedItem(schema) ==
    IF schema.kind = "Item" THEN Item(schema.value) ELSE Reference(schema.value)

AnySchemaDefault == [properties |-> IndexMapNew, required |-> <<>>]

RequestBodyDefault == [description |-> None, content |-> IndexMapNew, required |-> FALSE]

MediaToString(media) == media.mime

RECURSIVE DecimalValue(_)
DecimalValue(digits) ==
    IF digits = <<>> THEN 0
    ELSE 10 * DecimalValue(SubSeq(digits, 1, Len(digits) - 1))
            + (digits[Len(digits)] - 48)

\* Mutant: the value wraps at 16 bits instead of failing.
ParseU16_Wrapping(k) ==
    IF k = <<>> THEN None
    ELSE LET digits == IF k[1] = 43 THEN Tail(k) ELSE k
         IN  IF digits = <<>> THEN None
             ELSE IF \E j \in DOMAIN digits : digits[j] \notin 48..57 THEN None
             ELSE Some(DecimalValue(digits) % 65536)

\* u16::from_str: an optional '+', then one or more decimal digits whose
\* value fits 16 bits.  Err is None, Ok(code) is Some(code).
ParseU16(k) ==
    IF k = <<>> THEN None
    ELSE LET digits == IF k[1] = 43 THEN Tail(k) ELSE k
         IN  IF digits = <<>> THEN None
             ELSE IF \E j \in DOMAIN digits : digits[j] \notin 48..57 THEN None
             ELSE IF DecimalValue(digits) > 65535 THEN None
             ELSE Some(DecimalValue(digits))

StatusCode(code) == [kind |-> "Code", value |-> code]

\* From<OperationEitherResponse> for ReferenceOr<Response>.
ResponseInto(operation, response) == Item([description |-> response.description])

\* The fold over v2.responses.iter() that builds the response map.
RECURSIVE FoldResponses(_, _, _, _)
FoldResponses(op, keys, n, i) ==
    IF n > Len(keys) THEN i
    ELSE LET k == keys[n]
             code == ParseU16(k)
         IN  FoldResponses(op, keys, n + 1,
                 IF IsSome(code)
                 THEN IndexMapInsert(i, StatusCode(Unwrap(code)),
                                     ResponseInto(op, op.responses[k]))
                 ELSE i)

ConvertResponses(op) ==
    [default |-> None,
     responses |-> FoldResponses(op, BTreeMapIter(op.responses), 1, IndexMapNew)]

\* The fold over one security requirement set.
RECURSIVE FoldSecurity(_, _, _, _)
FoldSecurity(s, keys, n, i) ==
    IF n > Len(keys) THEN i
    ELSE FoldSecurity(s, keys, n + 1, IndexMapInsert(i, keys[n], s[keys[n]]))

\* Mutant: an empty list of requirement sets stays present.
ConvertSecurity_AlwaysSome(op) ==
    Some([j \in 1..Len(op.security) |->
            FoldSecurity(op.security[j], BTreeMapIter(op.security[j]), 1, IndexMapNew)])

ConvertSecurity(op) ==
    IF Len(op.security) = 0 THEN None
    ELSE Some([j \in 1..Len(op.security) |->
                 FoldSecurity(op.security[j], BTreeMapIter(op.security[j]), 1, IndexMapNew)])

\* Mutant: the loop leaves after the first media type.
InsertMedia_FirstOnly(content, consumes, n, any) ==
    IF consumes = <<>> THEN content
    ELSE IndexMapInsert(content, MediaToString(consumes[1]),
            [schema |-> Some(Item([schema_data |-> SchemaDataDefault,
                                   schema_kind |-> [kind |-> "Any", value |-> any]]))])

\* The loop over consumes that wraps form_data once per media type.
RECURSIVE InsertMedia(_, _, _, _)
InsertMedia(content, consumes, n, any) ==
    IF n > Len(consumes) THEN content
    ELSE InsertMedia(
            IndexMapInsert(content, MediaToString(consumes[n]),
                [schema |-> Some(Item([schema_data |-> SchemaDataDefault,
                                       schema_kind |-> [kind |-> "Any", value |-> any]]))]),
            consumes, n + 1, any)

-----------------------------------------------------------------------------
(* From<v2::Operation> for openapiv3::Operation *)

\* No type declaration is being built.
BuilderIdle ==
    /\ item_ast = [kind |-> "None"]
    /\ builder_pc = "idle"
    /\ field_idx = 1
    /\ schema_raw = <<>>

\* No attribute list is being read.
SerdeIdle ==
    /\ item_attrs = <<>>
    /\ attrs_pc = "idle"
    /\ attr_idx = 1
    /\ meta_idx = 1
    /\ props = [kind |-> "None"]
    /\ enum_tag = <<>>
    /\ enum_content_tag = <<>>

ErrorsIdle ==
    /\ error_attrs = <<>>
    /\ errors_pc = "idle"
    /\ error_idx = 1
    /\ code_list = <<>>
    /\ default_schema = <<>>
    /\ diagnostics = <<>>
    /\ error_codes = <<>>
    /\ error_map = <<>>

\* No macro is being expanded.
MacroIdle == SerdeIdle /\ ErrorsIdle

Init ==
    /\ ParameterOperation(v2) \/ ResponseOperation(v2) \/ MetadataOperation(v2)
    /\ pc = "scan"
    /\ idx = 1
    /\ request_body = None
    /\ form_data = None
    /\ parameters = <<>>
    /\ body_slot = None
    /\ v3 = None
    /\ debug_assertions = FALSE
    /\ source = [conv |-> "None", value |-> <<>>]
    /\ result = None
    /\ BuilderIdle
    /\ MacroIdle

Scanning == pc = "scan" /\ idx <= Len(v2.parameters)

p == v2.parameters[idx]

\* Either::Left(reference) => Some(reference.into())
ScanReference ==
    /\ Scanning
    /\ p.kind = "Reference"
    /\ parameters' = Append(parameters, ReferenceInto(p))
    /\ idx' = idx + 1
    /\ UNCHANGED <<v2, pc, request_body, form_data, body_slot, v3, schema_vars, builder_vars, macro_vars>>

\* Mutant: the converted parameter is put in front of the list.
ScanParameter_Prepend ==
    /\ Scanning
    /\ p.kind = "Parameter"
    /\ ParameterInto(p).either = "Left"
    /\ parameters' = <<Item(ParameterInto(p).value)>> \o parameters
    /\ idx' = idx + 1
    /\ UNCHANGED <<v2, pc, request_body, form_data, body_slot, v3, schema_vars, builder_vars, macro_vars>>

\* Either::Left(parameter) => Some(ReferenceOr::Item(parameter))
ScanParameter ==
    /\ Scanning
    /\ p.kind = "Parameter"
    /\ ParameterInto(p).either = "Left"
    /\ parameters' = Append(parameters, Item(ParameterInto(p).value))
    /\ idx' = idx + 1
    /\ UNCHANGED <<v2, pc, request_body, form_data, body_slot, v3, schema_vars, builder_vars, macro_vars>>

\* Mutant: a body parameter is kept only while the slot is empty.
ScanBody_KeepFirst ==
    /\ Scanning
    /\ p.kind = "Parameter"
    /\ ParameterInto(p).either = "RightLeft"
    /\ request_body' = IF IsSome(request_body) THEN request_body
                       ELSE Some(ParameterInto(p).value)
    /\ idx' = idx + 1
    /\ UNCHANGED <<v2, pc, form_data, parameters, body_slot, v3, schema_vars, builder_vars, macro_vars>>

\* Either::Right(Either::Left(l)) => { request_body = Some(l); None }
ScanBody ==
    /\ Scanning
    /\ p.kind = "Parameter"
    /\ ParameterInto(p).either = "RightLeft"
    /\ request_body' = Some(ParameterInto(p).value)
    /\ idx' = idx + 1
    /\ UNCHANGED <<v2, pc, form_data, parameters, body_slot, v3, schema_vars, builder_vars, macro_vars>>

\* The mutant of ScanFormInsert that starts the form schema again from the
\* parameter at hand.
ScanFormInsert_StartAgain ==
    /\ Scanning
    /\ p.kind = "Parameter"
    /\ ParameterInto(p).either = "RightRight"
    /\ IsSome(ParameterInto(p).value)
    /\ IsSome(form_data)
    /\ LET boxed_item == BoxedItem(Unwrap(ParameterInto(p).value))
       IN  form_data' =
             Some([AnySchemaDefault EXCEPT
                        !.properties = IndexMapInsert(@, p.name, boxed_item)])
    /\ idx' = idx + 1
    /\ UNCHANGED <<v2, pc, request_body, parameters, body_slot, v3, schema_vars, builder_vars, macro_vars>>

\* Either::Right(Either::Right(Some(schema))), form_data already there
ScanFormInsert ==
    /\ Scanning
    /\ p.kind = "Parameter"
    /\ ParameterInto(p).either = "RightRight"
    /\ IsSome(ParameterInto(p).value)
    /\ IsSome(form_data)
    /\ LET any == Unwrap(form_data)
           boxed_item == BoxedItem(Unwrap(ParameterInto(p).value))
       IN  form_data' =
             Some([any EXCEPT !.properties = IndexMapInsert(@, p.name, boxed_item)])
    /\ idx' = idx + 1
    /\ UNCHANGED <<v2, pc, request_body, parameters, body_slot, v3, schema_vars, builder_vars, macro_vars>>

\* Either::Right(Either::Right(Some(schema))), form_data still None
ScanFormCreate ==
    /\ Scanning
    /\ p.kind = "Parameter"
    /\ ParameterInto(p).either = "RightRight"
    /\ IsSome(ParameterInto(p).value)
    /\ ~IsSome(form_data)
    /\ LET boxed_item == BoxedItem(Unwrap(ParameterInto(p).value))
           any0 == AnySchemaDefault
           any1 == IF p.required
                   THEN [any0 EXCEPT !.required = Append(@, p.name)]
                   ELSE any0
           any2 == [any1 EXCEPT !.properties = IndexMapInsert(@, p.name, boxed_item)]
       IN  form_data' = Some(any2)
    /\ idx' = idx + 1
    /\ UNCHANGED <<v2, pc, request_body, parameters, body_slot, v3, schema_vars, builder_vars, macro_vars>>

\* Either::Right(Either::Right(None)) => None
ScanFormNone ==
    /\ Scanning
    /\ p.kind = "Parameter"
    /\ ParameterInto(p).either = "RightRight"
    /\ ~IsSome(ParameterInto(p).value)
    /\ idx' = idx + 1
    /\ UNCHANGED <<v2, pc, request_body, form_data, parameters, body_slot, v3, schema_vars, builder_vars, macro_vars>>

ScanDone == pc = "scan" /\ idx > Len(v2.parameters)

\* Mutant: the two branches are tried in the other order.
RequestBodyExplicit_FormFirst ==
    /\ ScanDone
    /\ IsSome(request_body)
    /\ body_slot' =
          IF IsSome(form_data) /\ IsSome(v2.consumes)
          THEN Some(Item([RequestBodyDefault EXCEPT
                  !.content = InsertMedia(@, Unwrap(v2.consumes), 1, Unwrap(form_data))]))
          ELSE Some(Item(Unwrap(request_body)))
    /\ pc' = "build"
    /\ UNCHANGED <<v2, idx, request_body, form_data, parameters, v3, schema_vars, builder_vars, macro_vars>>

\* if let Some(request_body) = request_body
RequestBodyExplicit ==
    /\ ScanDone
    /\ IsSome(request_body)
    /\ body_slot' = Some(Item(Unwrap(request_body)))
    /\ pc' = "build"
    /\ UNCHANGED <<v2, idx, request_body, form_data, parameters, v3, schema_vars, builder_vars, macro_vars>>

\* else if let Some(form_data) = form_data, Some(consumes)
RequestBodyForm ==
    /\ ScanDone
    /\ ~IsSome(request_body)
    /\ IsSome(form_data)
    /\ IsSome(v2.consumes)
    /\ body_slot' =
          Some(Item([RequestBodyDefault EXCEPT
                       !.content = InsertMedia(@, Unwrap(v2.consumes), 1, Unwrap(form_data))]))
    /\ pc' = "build"
    /\ UNCHANGED <<v2, idx, request_body, form_data, parameters, v3, schema_vars, builder_vars, macro_vars>>

\* Mutant: undeclared media types give a payload with no content.
RequestBodyFormNoConsumes_EmptyPayload ==
    /\ ScanDone
    /\ ~IsSome(request_body)
    /\ IsSome(form_data)
    /\ ~IsSome(v2.consumes)
    /\ body_slot' = Some(Item(RequestBodyDefault))
    /\ pc' = "build"
    /\ UNCHANGED <<v2, idx, request_body, form_data, parameters, v3, schema_vars, builder_vars, macro_vars>>

\* else if let Some(form_data) = form_data, consumes is None
RequestBodyFormNoConsumes ==
    /\ ScanDone
    /\ ~IsSome(request_body)
    /\ IsSome(form_data)
    /\ ~IsSome(v2.consumes)
    /\ body_slot' = None
    /\ pc' = "build"
    /\ UNCHANGED <<v2, idx, request_body, form_data, parameters, v3, schema_vars, builder_vars, macro_vars>>

\* else None
RequestBodyNone ==
    /\ ScanDone
    /\ ~IsSome(request_body)
    /\ ~IsSome(form_data)
    /\ body_slot' = None
    /\ pc' = "build"
    /\ UNCHANGED <<v2, idx, request_body, form_data, parameters, v3, schema_vars, builder_vars, macro_vars>>

\* Mutant: the extensions of the v2 operation are carried over.
BuildOperation_KeepExtensions ==
    /\ pc = "build"
    /\ v3' = Some([tags |-> v2.tags,
                   summary |-> v2.summary,
                   description |-> v2.description,
                   external_docs |-> None,
                   operation_id |-> v2.operation_id,
                   parameters |-> parameters,
                   request_body |-> body_slot,
                   responses |-> ConvertResponses(v2),
                   deprecated |-> v2.deprecated,
                   security |-> ConvertSecurity(v2),
                   servers |-> <<>>,
                   extensions |-> v2.extensions])
    /\ pc' = "done"
    /\ UNCHANGED <<v2, idx, request_body, form_data, parameters, body_slot, schema_vars, builder_vars, macro_vars>>

\* openapiv3::Operation { ... }
BuildOperation ==
    /\ pc = "build"
    /\ v3' = Some([tags |-> v2.tags,
                   summary |-> v2.summary,
                   description |-> v2.description,
                   external_docs |-> None,
                   operation_id |-> v2.operation_id,
                   parameters |-> parameters,
                   request_body |-> body_slot,
                   responses |-> ConvertResponses(v2),
                   deprecated |-> v2.deprecated,
                   security |-> ConvertSecurity(v2),
                   servers |-> <<>>,
                   extensions |-> IndexMapNew])
    /\ pc' = "done"
    /\ UNCHANGED <<v2, idx, request_body, form_data, parameters, body_slot, schema_vars, builder_vars, macro_vars>>

Next ==
    \/ ScanReference
    \/ ScanParameter
    \/ ScanBody
    \/ ScanFormInsert
    \/ ScanFormCreate
    \/ ScanFormNone
    \/ RequestBodyExplicit
    \/ RequestBodyForm
    \/ RequestBodyFormNoConsumes
    \/ RequestBodyNone
    \/ BuildOperation

Spec == Init /\ [][Next]_vars

-----------------------------------------------------------------------------
(* v2 schemas and Items descriptors *)

DataTypes == {"Integer", "Number", "String", "Boolean", "Array", "Object", "File"}

DataTypeFormats ==
    {"Int32", "Int64", "Float", "Double", "Byte", "Binary", "Date", "DateTime",
     "Password", "Url", "Uuid", "Ip", "IpV4", "IpV6", "Other"}

\* Display of v2::DataTypeFormat, the text each variant is written as.
FormatToString(format) ==
    CASE format = "Int32" -> "int32"
      [] format = "Int64" -> "int64"
      [] format = "Float" -> "float"
      [] format = "Double" -> "double"
      [] format = "Byte" -> "byte"
      [] format = "Binary" -> "binary"
      [] format = "Date" -> "date"
      [] format = "DateTime" -> "date-time"
      [] format = "Password" -> "password"
      [] format = "Url" -> "url"
      [] format = "Uuid" -> "uuid"
      [] format = "Ip" -> "ip"
      [] format = "IpV4" -> "ipv4"
      [] format = "IpV6" -> "ipv6"
      [] format = "Other" -> "other"

\* serde_json::Value, the kinds that occur.
JString(x) == [kind |-> "String", value |-> x]
JNumber(n) == [kind |-> "Number", value |-> n]
JBool(b) == [kind |-> "Bool", value |-> b]
JNull == [kind |-> "Null", value |-> 0]

StrId == <<105, 100>>                   \* "id"
StrName == <<110, 97, 109, 101>>        \* "name"

Option(S) == {None} \cup {Some(x) : x \in S}

\* v2::DefaultSchemaRaw with every field at its default.
SchemaRawDefault ==
    [reference |-> None, data_type |-> None, format |-> None, enum_ |-> <<>>,
     items |-> None, properties |-> <<>>, required |-> {}, any_of |-> <<>>,
     all_of |-> <<>>, const_ |-> None, example |-> None, title |-> None,
     description |-> None, extensions |-> <<>>, name |-> None]

LeafSchemas ==
    {[SchemaRawDefault EXCEPT !.data_type = dt, !.format = f] :
        dt \in Option(DataTypes), f \in Option(DataTypeFormats)}

ObjectSchema ==
    [SchemaRawDefault EXCEPT
        !.data_type = Some("Object"),
        !.description = Some("A pet"),
        !.properties = [k \in {StrId, StrName} |->
            IF k = StrId
            THEN [SchemaRawDefault EXCEPT !.data_type = Some("Integer"), !.format = Some("Int64")]
            ELSE [SchemaRawDefault EXCEPT !.data_type = Some("String"), !.format = Some("Other")]],
        !.required = {StrId}]

ComposedSchemas ==
    {[SchemaRawDefault EXCEPT !.reference = Some("#/definitions/Pet"),
                              !.data_type = Some("Object"),
                              !.description = Some("A pet")],
     ObjectSchema,
     [SchemaRawDefault EXCEPT
        !.any_of = <<[SchemaRawDefault EXCEPT !.reference = Some("#/definitions/Pet")],
                     [SchemaRawDefault EXCEPT !.data_type = Some("Number"),
                                              !.format = Some("Int32")]>>],
     [SchemaRawDefault EXCEPT
        !.all_of = <<[SchemaRawDefault EXCEPT !.reference = Some("#/definitions/Pet")],
                     [SchemaRawDefault EXCEPT !.description = Some("overlay")]>>],
     [SchemaRawDefault EXCEPT !.const_ = Some(JString("Cat"))],
     [SchemaRawDefault EXCEPT !.const_ = Some(JNumber(1))],
     [SchemaRawDefault EXCEPT !.data_type = Some("String"),
                              !.enum_ = <<JString("a"), JNumber(1), JNull>>],
     [SchemaRawDefault EXCEPT !.data_type = Some("Integer"),
                              !.enum_ = <<JString("a"), JNumber(1), JBool(TRUE)>>]}

\* Nodes that set several of data_type, any_of, all_of and const_ at once, and
\* nodes that set properties and required without being objects.
PetReference == [SchemaRawDefault EXCEPT !.reference = Some("#/definitions/Pet")]

OwnProperties(s) ==
    [s EXCEPT !.properties = [k \in {StrId} |->
                                [SchemaRawDefault EXCEPT !.data_type = Some("Boolean")]],
              !.required = {StrId}]

OverlappingSchemas ==
    {OwnProperties(s) : s \in
        {[SchemaRawDefault EXCEPT !.data_type = Some("String"),
                                  !.any_of = <<PetReference>>,
                                  !.all_of = <<PetReference>>,
                                  !.const_ = Some(JString("Cat"))],
         [SchemaRawDefault EXCEPT !.any_of = <<PetReference, SchemaRawDefault>>,
                                  !.all_of = <<PetReference>>,
                                  !.const_ = Some(JString("Cat"))],
         [SchemaRawDefault EXCEPT !.all_of = <<SchemaRawDefault, PetReference>>,
                                  !.const_ = Some(JString("Cat"))],
         [SchemaRawDefault EXCEPT !.const_ = Some(JString("Cat"))],
         [SchemaRawDefault EXCEPT !.const_ = Some(JBool(TRUE))],
         SchemaRawDefault}}

RECURSIVE V2Schemas(_)
V2Schemas(depth) ==
    IF depth = 0 THEN LeafSchemas \cup ComposedSchemas \cup OverlappingSchemas
    ELSE V2Schemas(depth - 1) \cup
         {[SchemaRawDefault EXCEPT !.data_type = Some("Array"), !.items = Some(s)] :
            s \in V2Schemas(depth - 1)}

\* v2::Items with every field at its default.  An f32 is held in tenths.
ItemsDefault ==
    [data_type |-> None, format |-> None, items |-> None, enum_ |-> <<>>,
     multiple_of |-> None, minimum |-> None, maximum |-> None,
     exclusive_minimum |-> None, exclusive_maximum |-> None, pattern |-> None,
     min_length |-> None, max_length |-> None, min_items |-> None,
     max_items |-> None, unique_items |-> None]

LeafItems ==
    {[ItemsDefault EXCEPT !.data_type = dt, !.format = f] :
        dt \in Option(DataTypes), f \in Option(DataTypeFormats)}

ConstrainedItems ==
    {[ItemsDefault EXCEPT !.data_type = Some("Integer"), !.minimum = Some(15),
                          !.maximum = Some(-25), !.multiple_of = Some(20),
                          !.exclusive_minimum = Some(TRUE),
                          !.enum_ = <<JNumber(1), JString("a")>>],
     [ItemsDefault EXCEPT !.data_type = Some("Number"), !.minimum = Some(15),
                          !.exclusive_maximum = Some(TRUE)],
     [ItemsDefault EXCEPT !.data_type = Some("String"), !.pattern = Some("^a"),
                          !.min_length = Some(1), !.max_length = Some(8),
                          !.enum_ = <<JString("a"), JNull>>],
     [ItemsDefault EXCEPT !.data_type = Some("Array"), !.min_items = Some(1),
                          !.unique_items = Some(TRUE)]}

RECURSIVE V2Items(_)
V2Items(depth) ==
    IF depth = 0 THEN LeafItems \cup ConstrainedItems
    ELSE V2Items(depth - 1) \cup
         {[ItemsDefault EXCEPT !.data_type = Some("Array"), !.items = Some(it)] :
            it \in V2Items(depth - 1)}

-----------------------------------------------------------------------------
(* core/src/v3/schema.rs *)

\* openapiv3::VariantOrUnknownOrEmpty
Empty == [kind |-> "Empty", value |-> ""]
Variant(x) == [kind |-> "Item", value |-> x]
Unknown(x) == [kind |-> "Unknown", value |-> x]

Type(t) == [kind |-> "Type", value |-> t]

\* A panic that unwinds out of the conversion.
Panic == [kind |-> "Panic", value |-> "debug_assert"]
IsPanic(x) == x.kind = "Panic"

\* debug_assert!(false, ..): panics when the build has debug assertions,
\* otherwise goes on to the fallback value.
DebugAssertFalse(fallback) == IF debug_assertions THEN Panic ELSE fallback

\* serde_json::from_value(v).unwrap_or_default() at each element type.
EnumerationI64(enum_) ==
    [j \in DOMAIN enum_ |->
        IF enum_[j].kind = "Number" THEN Some(enum_[j].value) ELSE None]

EnumerationF64(enum_) ==
    [j \in DOMAIN enum_ |->
        IF enum_[j].kind = "Number" THEN Some(10 * enum_[j].value) ELSE None]

EnumerationString(enum_) ==
    [j \in DOMAIN enum_ |->
        IF enum_[j].kind = "String" THEN Some(enum_[j].value) ELSE None]

\* The format of an IntegerType.
IntegerFormat(format) ==
    IF format = None THEN Empty
    ELSE CASE Unwrap(format) = "Int32" -> Variant("Int32")
           [] Unwrap(format) = "Int64" -> Variant("Int64")
           [] OTHER -> DebugAssertFalse(Empty)

\* The format of a NumberType.
NumberFormat(format) ==
    IF format = None THEN Empty
    ELSE CASE Unwrap(format) = "Float" -> Variant("Float")
           [] Unwrap(format) = "Double" -> Variant("Double")
           [] OTHER -> DebugAssertFalse(Empty)

\* The format of a StringType.
StringFormat(format) ==
    IF format = None THEN Empty
    ELSE CASE Unwrap(format) = "Byte" -> Variant("Byte")
           [] Unwrap(format) = "Binary" -> Variant("Binary")
           [] Unwrap(format) = "Date" -> Variant("Date")
           [] Unwrap(format) = "DateTime" -> Variant("DateTime")
           [] Unwrap(format) = "Password" -> Variant("Password")
           [] Unwrap(format) = "Other" -> DebugAssertFalse(Unknown(FormatToString("Other")))
           [] OTHER -> Unknown(FormatToString(Unwrap(format)))

IntegerType(format, multiple_of, exclusive_minimum, exclusive_maximum, minimum, maximum, enumeration) ==
    [type |-> "Integer", format |-> format, multiple_of |-> multiple_of,
     exclusive_minimum |-> exclusive_minimum, exclusive_maximum |-> exclusive_maximum,
     minimum |-> minimum, maximum |-> maximum, enumeration |-> enumeration]

NumberType(format, multiple_of, exclusive_minimum, exclusive_maximum, minimum, maximum, enumeration) ==
    [type |-> "Number", format |-> format, multiple_of |-> multiple_of,
     exclusive_minimum |-> exclusive_minimum, exclusive_maximum |-> exclusive_maximum,
     minimum |-> minimum, maximum |-> maximum, enumeration |-> enumeration]

StringType(format, pattern, enumeration, min_length, max_length) ==
    [type |-> "String", format |-> format, pattern |-> pattern,
     enumeration |-> enumeration, min_length |-> min_length, max_length |-> max_length]

ArrayType(items, min_items, max_items, unique_items) ==
    [type |-> "Array", items |-> items, min_items |-> min_items,
     max_items |-> max_items, unique_items |-> unique_items]

ObjectType(properties, required) ==
    [type |-> "Object", properties |-> properties, required |-> required]

ObjectTypeDefault == ObjectType(IndexMapNew, <<>>)

\* v2::Reference { reference }.into()
V2ReferenceInto(reference) == Reference(reference)

RECURSIVE SchemaFrom(_)
RECURSIVE BoxedSchemaFrom(_)
RECURSIVE v2_data_type_to_v3(_, _, _, _, _, _)
RECURSIVE FoldProperties(_, _, _, _)

\* The fold over properties.iter() of an object schema.
FoldProperties(properties, keys, n, i) ==
    IF n > Len(keys) THEN i
    ELSE FoldProperties(properties, keys, n + 1,
            IndexMapInsert(i, keys[n], BoxedSchemaFrom(properties[keys[n]])))

v2_data_type_to_v3(data_type, format, enum_, items, properties, required) ==
    CASE data_type = "Integer" ->
            IF IsPanic(IntegerFormat(format)) THEN Panic
            ELSE Type(IntegerType(IntegerFormat(format), None, FALSE, FALSE, None, None,
                                  EnumerationI64(enum_)))
      [] data_type = "Number" ->
            IF IsPanic(NumberFormat(format)) THEN Panic
            ELSE Type(NumberType(NumberFormat(format), None, FALSE, FALSE, None, None,
                                 EnumerationF64(enum_)))
      [] data_type = "String" ->
            IF IsPanic(StringFormat(format)) THEN Panic
            ELSE Type(StringType(StringFormat(format), None, EnumerationString(enum_),
                                 None, None))
      [] data_type = "Boolean" -> Type([type |-> "Boolean"])
      [] data_type = "Array" ->
            LET converted == IF items = None THEN None
                             ELSE Some(BoxedSchemaFrom(Unwrap(items)))
            IN  IF converted # None /\ IsPanic(Unwrap(converted)) THEN Panic
                ELSE Type(ArrayType(converted, None, None, FALSE))
      [] data_type = "Object" ->
            LET converted == FoldProperties(properties, BTreeMapIter(properties), 1, IndexMapNew)
            IN  IF \E j \in DOMAIN converted : IsPanic(converted[j].value) THEN Panic
                ELSE Type(ObjectType(converted, SortedKeys(required)))
      [] data_type = "File" ->
            Type(StringType(Variant("Binary"), None, <<>>, None, None))

\* Mutant: any_of is looked at before data_type.
SchemaFrom_AnyOfFirst(s) ==
    IF s.reference # None THEN V2ReferenceInto(Unwrap(s.reference))
    ELSE LET schema_kind ==
                IF s.any_of # <<>>
                THEN LET any_of == [j \in DOMAIN s.any_of |-> SchemaFrom(s.any_of[j])]
                     IN  IF \E j \in DOMAIN any_of : IsPanic(any_of[j]) THEN Panic
                         ELSE [kind |-> "AnyOf", value |-> any_of]
                ELSE IF s.data_type # None
                THEN v2_data_type_to_v3(Unwrap(s.data_type), s.format, s.enum_, s.items,
                                        s.properties, s.required)
                ELSE IF s.all_of # <<>>
                THEN LET all_of == [j \in DOMAIN s.all_of |-> SchemaFrom(s.all_of[j])]
                     IN  IF \E j \in DOMAIN all_of : IsPanic(all_of[j]) THEN Panic
                         ELSE [kind |-> "AllOf", value |-> all_of]
                ELSE IF s.const_ # None
                THEN IF Unwrap(s.const_).kind = "String"
                     THEN Type(StringType(Empty, None, <<Some(Unwrap(s.const_).value)>>,
                                          None, None))
                     ELSE Type(ObjectTypeDefault)
                ELSE Type(ObjectTypeDefault)
         IN  IF IsPanic(schema_kind) THEN Panic
             ELSE Item([schema_data |-> [example |-> s.example, title |-> s.title,
                                         description |-> s.description,
                                         extensions |-> s.extensions],
                        schema_kind |-> schema_kind])

\* From<v2::DefaultSchemaRaw> for ReferenceOr<Schema>
SchemaFrom(s) ==
    IF s.reference # None THEN V2ReferenceInto(Unwrap(s.reference))
    ELSE LET schema_kind ==
                IF s.data_type # None
                THEN v2_data_type_to_v3(Unwrap(s.data_type), s.format, s.enum_, s.items,
                                        s.properties, s.required)
                ELSE IF s.any_of # <<>>
                THEN LET any_of == [j \in DOMAIN s.any_of |-> SchemaFrom(s.any_of[j])]
                     IN  IF \E j \in DOMAIN any_of : IsPanic(any_of[j]) THEN Panic
                         ELSE [kind |-> "AnyOf", value |-> any_of]
                ELSE IF s.all_of # <<>>
                THEN LET all_of == [j \in DOMAIN s.all_of |-> SchemaFrom(s.all_of[j])]
                     IN  IF \E j \in DOMAIN all_of : IsPanic(all_of[j]) THEN Panic
                         ELSE [kind |-> "AllOf", value |-> all_of]
                ELSE IF s.const_ # None
                THEN IF Unwrap(s.const_).kind = "String"
                     THEN Type(StringType(Empty, None, <<Some(Unwrap(s.const_).value)>>,
                                          None, None))
                     ELSE Type(ObjectTypeDefault)
                ELSE Type(ObjectTypeDefault)
         IN  IF IsPanic(schema_kind) THEN Panic
             ELSE Item([schema_data |-> [example |-> s.example, title |-> s.title,
                                         description |-> s.description,
                                         extensions |-> s.extensions],
                        schema_kind |-> schema_kind])

\* From<v2::DefaultSchemaRaw> for ReferenceOr<Box<Schema>>
BoxedSchemaFrom(s) ==
    LET x == SchemaFrom(s)
    IN  CASE x.kind = "Reference" -> Reference(x.value)
          [] x.kind = "Item" -> Item(x.value)
          [] OTHER -> x

\* invalid_referenceor(message): the placeholder that carries the message.
InvalidReferenceOr(message) == [kind |-> "Invalid", value |-> message]

\* `v as i64` of an f32 held in tenths: truncation toward zero.
AsI64(tenths) == IF tenths >= 0 THEN tenths \div 10 ELSE -((-tenths) \div 10)

\* Option::map(|v| v as i64)
OptionAsI64(o) == IF o = None THEN None ELSE Some(AsI64(Unwrap(o)))

\* A widening conversion (f32 to f64, u32 to usize): the value is kept.
Widen(x) == x

\* Option::map(From::from), Option::map(|v| v as usize)
OptionWiden(o) == IF o = None THEN None ELSE Some(Widen(Unwrap(o)))

UnwrapOrDefault(o) == IF o = None THEN FALSE ELSE Unwrap(o)

ItemSchema(schema_kind) ==
    Item([schema_data |-> SchemaDataDefault, schema_kind |-> schema_kind])

\* Mutant: every format is let through for a string item, as
\* v2_data_type_to_v3 lets it through for a string schema.
ItemsStringFormats_Any == DataTypeFormats

\* The formats each Items arm takes; any other returns the placeholder.
ItemsIntegerFormats == {"Int32", "Int64"}

ItemsNumberFormats == {"Float", "Double"}

ItemsStringFormats == {"Byte", "Binary", "Date", "DateTime", "Password"}

RECURSIVE ItemsFrom(_)

\* From<v2::Items> for ReferenceOr<Box<Schema>>
ItemsFrom(it) ==
    IF it.data_type = None
    THEN InvalidReferenceOr(<<"Invalid Item, should have a data type">>)
    ELSE LET data_type == Unwrap(it.data_type)
             invalid_format ==
                InvalidReferenceOr(<<"Invalid data type format: ", Unwrap(it.format)>>)
         IN  CASE data_type = "Integer" ->
                    IF it.format # None /\ Unwrap(it.format) \notin ItemsIntegerFormats
                    THEN invalid_format
                    ELSE ItemSchema(Type(IntegerType(
                            IF it.format = None THEN Empty ELSE Variant(Unwrap(it.format)),
                            OptionAsI64(it.multiple_of),
                            UnwrapOrDefault(it.exclusive_minimum),
                            UnwrapOrDefault(it.exclusive_maximum),
                            OptionAsI64(it.minimum),
                            OptionAsI64(it.maximum),
                            EnumerationI64(it.enum_))))
               [] data_type = "Number" ->
                    IF it.format # None /\ Unwrap(it.format) \notin ItemsNumberFormats
                    THEN invalid_format
                    ELSE ItemSchema(Type(NumberType(
                            IF it.format = None THEN Empty ELSE Variant(Unwrap(it.format)),
                            OptionWiden(it.multiple_of),
                            UnwrapOrDefault(it.exclusive_minimum),
                            UnwrapOrDefault(it.exclusive_maximum),
                            OptionWiden(it.minimum),
                            OptionWiden(it.maximum),
                            EnumerationF64(it.enum_))))
               [] data_type = "String" ->
                    IF it.format # None /\ Unwrap(it.format) \notin ItemsStringFormats
                    THEN invalid_format
                    ELSE ItemSchema(Type(StringType(
                            IF it.format = None THEN Empty ELSE Variant(Unwrap(it.format)),
                            it.pattern,
                            EnumerationString(it.enum_),
                            OptionWiden(it.min_length),
                            OptionWiden(it.max_length))))
               [] data_type = "Boolean" -> ItemSchema(Type([type |-> "Boolean"]))
               [] data_type = "Array" ->
                    ItemSchema(Type(ArrayType(
                        IF it.items = None THEN None ELSE Some(ItemsFrom(Unwrap(it.items))),
                        OptionWiden(it.min_items),
                        OptionWiden(it.max_items),
                        UnwrapOrDefault(it.unique_items))))
               [] OTHER ->
                    InvalidReferenceOr(<<"Invalid Item data_type: ", data_type>>)

SchemaInit ==
    /\ debug_assertions \in BOOLEAN
    /\ \/ \E s \in V2Schemas(MaxDepth) :
            source \in {[conv |-> "Schema", value |-> s], [conv |-> "BoxedSchema", value |-> s]}
       \/ \E it \in V2Items(MaxDepth) : source = [conv |-> "Items", value |-> it]
    /\ result = None
    /\ v2 = V2Operation(None, <<>>, <<>>, <<>>)
    /\ pc = "idle"
    /\ idx = 1
    /\ request_body = None
    /\ form_data = None
    /\ parameters = <<>>
    /\ body_slot = None
    /\ v3 = None
    /\ BuilderIdle
    /\ MacroIdle

operation_vars == <<v2, pc, idx, request_body, form_data, parameters, body_slot, v3>>

ConvertSchema ==
    /\ source.conv = "Schema"
    /\ result = None
    /\ result' = Some(SchemaFrom(source.value))
    /\ UNCHANGED <<debug_assertions, source, operation_vars, builder_vars, macro_vars>>

ConvertBoxedSchema ==
    /\ source.conv = "BoxedSchema"
    /\ result = None
    /\ result' = Some(BoxedSchemaFrom(source.value))
    /\ UNCHANGED <<debug_assertions, source, operation_vars, builder_vars, macro_vars>>

ConvertItems ==
    /\ source.conv = "Items"
    /\ result = None
    /\ result' = Some(ItemsFrom(source.value))
    /\ UNCHANGED <<debug_assertions, source, operation_vars, builder_vars, macro_vars>>

SchemaNext ==
    \/ ConvertSchema
    \/ ConvertBoxedSchema
    \/ ConvertItems

SchemaSpec == SchemaInit /\ [][SchemaNext]_vars

-----------------------------------------------------------------------------
(* Apiv2Schema: what the generated code asks of a field's type *)

\* The associated functions of paperclip::v2::schema::Apiv2Schema that the
\* generated code calls on a type: name(), description(), required() and
\* raw_schema().  A type is the record of what they return.
Apiv2Schema(name, description, required, raw_schema) ==
    [name |-> name, description |-> description, required |-> required,
     raw_schema |-> raw_schema]

\* Apiv2Schema::schema_with_ref(): the built schema of the type, made a
\* pointer to the type's canonical name when the type has one.
schema_with_ref(ty) ==
    IF IsSome(ty.name)
    THEN [ty.raw_schema EXCEPT !.reference = Some("#/definitions/" \o Unwrap(ty.name))]
    ELSE ty.raw_schema

\* String, i64 and Option<T> as the core crate implements them.
TypeString ==
    Apiv2Schema(None, "", TRUE, [SchemaRawDefault EXCEPT !.data_type = Some("String")])

TypeI64 ==
    Apiv2Schema(None, "", TRUE,
                [SchemaRawDefault EXCEPT !.data_type = Some("Integer"),
                                         !.format = Some("Int64")])

OptionOf(ty) == [ty EXCEPT !.required = FALSE]

BTreeMapInsert(m, k, v) ==
    [x \in (DOMAIN m) \cup {k} |-> IF x = k THEN v ELSE m[x]]

-----------------------------------------------------------------------------
(* Type declarations: syn's DeriveInput, Field and Variant, each attribute *)
(* held as what the extract_* and *::exists helpers return for it          *)

\* A field with no attribute.
Field(ident, ty) ==
    [ident |-> ident, ty |-> ty, skip |-> FALSE, rename |-> None, flatten |-> FALSE,
     required |-> FALSE, optional |-> FALSE, inline |-> FALSE, docs |-> "",
     gated |-> None, collapsed |-> FALSE, priority |-> None, example |-> None]

Fields(kind, list) == [kind |-> kind, list |-> list]

FieldsUnit == Fields("Unit", <<>>)

\* A variant with no attribute.
EnumVariant(ident, fields) ==
    [ident |-> ident, fields |-> fields, skip |-> FALSE, rename |-> None, docs |-> "",
     gated |-> None, collapsed |-> FALSE, priority |-> None, example |-> None]

External == [kind |-> "External", tag |-> "", content |-> ""]
Internal(tag) == [kind |-> "Internal", tag |-> tag, content |-> ""]
Adjacent(tag, content) == [kind |-> "Adjacent", tag |-> tag, content |-> content]
Untagged == [kind |-> "Untagged", tag |-> "", content |-> ""]

SerdeProps(rename, enum_tag_type) == [rename |-> rename, enum_tag_type |-> enum_tag_type]

SerdePropsDefault == SerdeProps(None, External)

\* A struct or enum declaration with no attribute and no type parameter.
\* type_params holds, per declared type parameter, the type it is bound to.
DeriveInput(ident, data) ==
    [kind |-> "DeriveInput", ident |-> ident, data |-> data, rename |-> None,
     inline |-> FALSE, docs |-> "", example |-> None, gated |-> None,
     collapsed |-> FALSE, priority |-> None, type_params |-> <<>>,
     serde |-> SerdePropsDefault]

DataStruct(fields) == [kind |-> "Struct", fields |-> fields, variants |-> <<>>]
DataEnum(variants) == [kind |-> "Enum", fields |-> FieldsUnit, variants |-> variants]

-----------------------------------------------------------------------------
(* Text conversions of the attribute helpers *)

\* str::trim on the documentation strings that occur: a doc comment
\* `/// A pet` is held as " A pet".
Trim(docs) ==
    CASE docs = " " -> ""
      [] docs = " A pet" -> "A pet"
      [] docs = " Inline part" -> "Inline part"
      [] docs = " The owner" -> "The owner"
      [] docs = " An order" -> "An order"
      [] docs = " A case" -> "A case"
      [] OTHER -> docs

\* serde_json::from_str(example).ok().or_else(|| Some(example.into())) on
\* the example texts that occur: valid JSON is parsed, any other text is
\* kept as a JSON string.
ExampleValue(example) ==
    CASE example = "42" -> Some(JNumber(42))
      [] example = "true" -> Some(JBool(TRUE))
      [] example = "\"rex\"" -> Some(JString("rex"))
      [] OTHER -> Some(JString(example))

\* str::strip_prefix("r#") on the identifiers that occur.
StripRawPrefix(ident) ==
    IF ident = "r#match" THEN "match" ELSE ident

\* SerdeRename::rename for rename_all = "UPPERCASE" and "lowercase", on the
\* identifiers that occur.
ToUppercase(name) ==
    CASE name = "id" -> "ID"
      [] name = "match" -> "MATCH"
      [] name = "owner" -> "OWNER"
      [] name = "note" -> "NOTE"
      [] name = "Cat" -> "CAT"
      [] name = "Dog" -> "DOG"
      [] name = "Fish" -> "FISH"
      [] name = "Bird" -> "BIRD"
      [] OTHER -> name

ToLowercase(name) ==
    CASE name = "Cat" -> "cat"
      [] name = "Dog" -> "dog"
      [] name = "Fish" -> "fish"
      [] name = "Bird" -> "bird"
      [] OTHER -> name

SerdeRenameApply(prop, name) ==
    IF prop = "Upper" THEN ToUppercase(name) ELSE ToLowercase(name)

\* usize::to_string on the tuple positions that occur.
IndexToString(i) ==
    CASE i = 0 -> "0" [] i = 1 -> "1" [] i = 2 -> "2" [] i = 3 -> "3" [] OTHER -> "4"

\* `if docs.is_empty() { None } else { Some(docs.into()) }`
DocsOption(docs) == IF docs = "" THEN None ELSE Some(docs)

-----------------------------------------------------------------------------
(* extract_metadata, add_metadata_to_schema, flattened_schema *)

\* TokenStream::is_empty of what extract_metadata returns for attrs.
MetadataIsEmpty(attrs) ==
    /\ Trim(attrs.docs) = ""
    /\ attrs.gated = None
    /\ ~attrs.collapsed
    /\ attrs.priority = None
    /\ attrs.example = None

\* The statements that extract_metadata generates, run on the schema `s`.
extract_metadata(s, attrs) ==
    LET s1 == IF Trim(attrs.docs) # ""
              THEN [s EXCEPT !.description = Some(Trim(attrs.docs))]
              ELSE s
        s2 == IF IsSome(attrs.gated)
              THEN [s1 EXCEPT !.extensions =
                        BTreeMapInsert(@, "x_fp_preview_gate", JString(Unwrap(attrs.gated)))]
              ELSE s1
        s3 == IF attrs.collapsed
              THEN [s2 EXCEPT !.extensions = BTreeMapInsert(@, "x_fp_collapsed", JBool(TRUE))]
              ELSE s2
        s4 == IF IsSome(attrs.priority)
              THEN [s3 EXCEPT !.extensions =
                        BTreeMapInsert(@, "x_fp_priority", JNumber(Unwrap(attrs.priority)))]
              ELSE s3
    IN IF IsSome(attrs.example)
       THEN [s4 EXCEPT !.example = ExampleValue(Unwrap(attrs.example))]
       ELSE s4

\* The value of `s` after the statements that add_metadata_to_schema
\* generates.
add_metadata_to_schema(schema_ref, attrs) ==
    IF MetadataIsEmpty(attrs)
    THEN schema_ref
    ELSE IF IsSome(schema_ref.name)
         THEN [SchemaRawDefault EXCEPT !.all_of =
                <<schema_ref,
                  extract_metadata(
                      [SchemaRawDefault EXCEPT !.data_type = schema_ref.data_type], attrs)>>]
         ELSE extract_metadata(schema_ref, attrs)

\* The mutant of flattened_schema whose wrapper keeps what `schema` held.
flattened_schema_KeepContent(schema, schema_ref) ==
    [schema EXCEPT !.all_of = <<schema, schema_ref>>]

\* The value of `schema` after the block that flattened_schema generates.
flattened_schema(schema, schema_ref) ==
    [SchemaRawDefault EXCEPT !.all_of = <<schema, schema_ref>>]

-----------------------------------------------------------------------------
(* handle_field_struct, handle_unnamed_field_struct *)

\* `schema_ref`: raw_schema() of the field's type when the field is marked
\* inline, schema_with_ref() otherwise.
SchemaRef(field) ==
    IF field.inline THEN field.ty.raw_schema ELSE schema_with_ref(field.ty)

\* The name a named field is serialized under.
FieldName(field, serde) ==
    IF IsSome(field.rename)
    THEN Unwrap(field.rename)
    ELSE IF IsSome(serde.rename)
         THEN SerdeRenameApply(Unwrap(serde.rename), StripRawPrefix(field.ident))
         ELSE StripRawPrefix(field.ident)

\* `(ty_ref::required() || override_required) && !override_optional`
FieldRequired(field) ==
    (field.ty.required \/ field.required) /\ ~field.optional

\* The mutant of InsertProperty in which the required override wins over the
\* optional override.
InsertProperty_RequiredWins(schema, name, s, field) ==
    LET inserted == [schema EXCEPT !.properties = BTreeMapInsert(@, name, s)]
    IN IF field.ty.required \/ field.required
       THEN [inserted EXCEPT !.required = @ \cup {name}]
       ELSE inserted

\* `schema.properties.insert(name, s.into())` followed by the conditional
\* `schema.required.insert(name)`.
InsertProperty(schema, name, s, field) ==
    LET inserted == [schema EXCEPT !.properties = BTreeMapInsert(@, name, s)]
    IN IF FieldRequired(field)
       THEN [inserted EXCEPT !.required = @ \cup {name}]
       ELSE inserted

\* The mutant of FieldStructField that gives a skipped field a property.
FieldStructField_KeepSkipped(schema, field, serde) ==
    IF ~field.flatten
    THEN InsertProperty(schema, FieldName(field, serde),
                        add_metadata_to_schema(SchemaRef(field), field), field)
    ELSE flattened_schema(schema, SchemaRef(field))

\* What one named field does to `schema`: one iteration of the loop of
\* handle_field_struct.
FieldStructField(schema, field, serde) ==
    IF field.skip
    THEN schema
    ELSE IF ~field.flatten
         THEN InsertProperty(schema, FieldName(field, serde),
                             add_metadata_to_schema(SchemaRef(field), field), field)
         ELSE flattened_schema(schema, SchemaRef(field))

\* The statement generated from the documentation of the struct.
FieldStructDocs(schema, docs) ==
    IF Trim(docs) # "" THEN [schema EXCEPT !.description = Some(Trim(docs))] ELSE schema

RECURSIVE FoldFieldStruct(_, _, _, _)
FoldFieldStruct(schema, list, i, serde) ==
    IF i > Len(list)
    THEN schema
    ELSE FoldFieldStruct(FieldStructField(schema, list[i], serde), list, i + 1, serde)

handle_field_struct(schema, fields, docs, serde) ==
    FoldFieldStruct(FieldStructDocs(schema, docs), fields.list, 1, serde)

\* A tuple struct with one element: `schema` becomes the schema of the
\* element's type, with the metadata of the struct laid over it.
UnnamedSingle(field, struct_attr) ==
    IF field.skip
    THEN extract_metadata(SchemaRawDefault, struct_attr)
    ELSE add_metadata_to_schema(SchemaRef(field), struct_attr)

\* What the element at position i (from 0) of a longer tuple struct does to
\* `schema`.
UnnamedElement(schema, field, i) ==
    IF field.skip
    THEN schema
    ELSE IF ~field.flatten
         THEN LET s == IF Trim(field.docs) # ""
                       THEN [SchemaRef(field) EXCEPT !.description = Some(Trim(field.docs))]
                       ELSE SchemaRef(field)
              IN InsertProperty(schema, IndexToString(i), s, field)
         ELSE flattened_schema(schema, SchemaRef(field))

RECURSIVE FoldUnnamed(_, _, _)
FoldUnnamed(schema, list, i) ==
    IF i > Len(list)
    THEN schema
    ELSE FoldUnnamed(UnnamedElement(schema, list[i], i - 1), list, i + 1)

handle_unnamed_field_struct(schema, fields, struct_attr) ==
    IF Len(fields.list) = 1
    THEN UnnamedSingle(fields.list[1], struct_attr)
    ELSE FoldUnnamed(schema, fields.list, 1)

-----------------------------------------------------------------------------
(* handle_enum *)

\* `simple_constants`: unit variants are bare strings under this tagging.
SimpleConstants(serde) ==
    serde.enum_tag_type.kind \in {"External", "Untagged"}

NotSkipped(var) == ~var.skip

\* The mutant of Variants that keeps the skipped variants.
Variants_KeepSkipped(e) == e.variants

\* `variants`: the variants that are not skipped, in declaration order.
Variants(e) == SelectSeq(e.variants, NotSkipped)

\* `only_simple_constants`
OnlySimpleConstants(e, serde) ==
    /\ SimpleConstants(serde)
    /\ ~\E i \in DOMAIN Variants(e) : Variants(e)[i].fields.kind # "Unit"

\* The name a variant is serialized under.
VariantName(var, serde) ==
    IF IsSome(var.rename)
    THEN Unwrap(var.rename)
    ELSE IF IsSome(serde.rename)
         THEN SerdeRenameApply(Unwrap(serde.rename), var.ident)
         ELSE var.ident

\* `enum_name`
EnumName(schema) == IF IsSome(schema.name) THEN Unwrap(schema.name) ELSE ""

\* `enum_variant_name`
EnumVariantName(enum_name, var) == enum_name \o var.ident

\* The statements of handle_enum that precede the loop over the variants.
EnumHeader(schema, e, docs, serde) ==
    LET typed == IF OnlySimpleConstants(e, serde)
                 THEN [schema EXCEPT !.data_type = Some("String")]
                 ELSE schema
    IN IF Trim(docs) # "" THEN [typed EXCEPT !.description = Some(Trim(docs))] ELSE typed

\* `inner_gen`: the schema of what the variant holds.
InnerGen(var, serde) ==
    LET object == [SchemaRawDefault EXCEPT !.data_type = Some("Object")]
        described == [object EXCEPT !.description = DocsOption(Trim(var.docs))]
    IN CASE var.fields.kind = "Unit" -> described
         [] var.fields.kind = "Named" ->
                handle_field_struct(extract_metadata(described, var), var.fields, "", serde)
         [] var.fields.kind = "Unnamed" ->
                handle_unnamed_field_struct(object, var.fields, var)

\* `inner_gen_empty`
InnerGenEmpty(var) == var.fields.kind = "Unit"

\* The schema of a unit variant under a tagging with simple constants.
ConstSchema(var, serde) ==
    [SchemaRawDefault EXCEPT !.const_ = Some(JString(VariantName(var, serde))),
                             !.description = DocsOption(Trim(var.docs))]

\* The mutant of ExternalSchema that requires the variant under its declared
\* identifier while the property is under the name it is serialized under.
ExternalSchema_RequiresIdent(var, serde) ==
    LET name == VariantName(var, serde)
    IN [SchemaRawDefault EXCEPT
            !.data_type = Some("Object"),
            !.properties = BTreeMapInsert(@, name, InnerGen(var, serde)),
            !.required = @ \cup {var.ident}]

\* The schema of a variant with data under external tagging.
ExternalSchema(var, serde) ==
    LET name == VariantName(var, serde)
    IN [SchemaRawDefault EXCEPT
            !.data_type = Some("Object"),
            !.properties = BTreeMapInsert(@, name, InnerGen(var, serde)),
            !.required = @ \cup {name}]

\* The mutant of InternalSchema that leaves the tag out of the required set.
InternalSchema_TagOptional(var, serde, enum_name) ==
    LET tag == serde.enum_tag_type.tag
        enum_variant_name == EnumVariantName(enum_name, var)
        tag_schema ==
            [SchemaRawDefault EXCEPT
                !.const_ = Some(JString(VariantName(var, serde))),
                !.extensions = BTreeMapInsert(@, "x_fp_priority", JNumber(0))]
    IN [InnerGen(var, serde) EXCEPT
            !.reference = Some("#/definitions/" \o enum_variant_name),
            !.name = Some(enum_variant_name),
            !.properties = BTreeMapInsert(@, tag, tag_schema)]

InternalSchema(var, serde, enum_name) ==
    LET tag == serde.enum_tag_type.tag
        enum_variant_name == EnumVariantName(enum_name, var)
        tag_schema ==
            [SchemaRawDefault EXCEPT
                !.const_ = Some(JString(VariantName(var, serde))),
                !.extensions = BTreeMapInsert(@, "x_fp_priority", JNumber(0))]
    IN [InnerGen(var, serde) EXCEPT
            !.reference = Some("#/definitions/" \o enum_variant_name),
            !.name = Some(enum_variant_name),
            !.properties = BTreeMapInsert(@, tag, tag_schema),
            !.required = @ \cup {tag}]

\* The schema of a variant under adjacent tagging, before the content
\* property is added.
AdjacentTagOnly(var, serde, enum_name) ==
    LET tag == serde.enum_tag_type.tag
        enum_variant_name == EnumVariantName(enum_name, var)
        tag_schema ==
            [SchemaRawDefault EXCEPT
                !.const_ = Some(JString(VariantName(var, serde))),
                !.description = DocsOption(Trim(var.docs))]
    IN [SchemaRawDefault EXCEPT
            !.data_type = Some("Object"),
            !.reference = Some("#/definitions/" \o enum_variant_name),
            !.name = Some(enum_variant_name),
            !.properties = BTreeMapInsert(@, tag, tag_schema)]

\* The mutant of AdjacentSchema that gives a unit variant a content property
\* as well.
AdjacentSchema_AlwaysContent(var, serde, enum_name) ==
    LET tag == serde.enum_tag_type.tag
        content_tag == serde.enum_tag_type.content
        wrapper_schema == AdjacentTagOnly(var, serde, enum_name)
    IN [wrapper_schema EXCEPT
            !.properties = BTreeMapInsert(@, content_tag, InnerGen(var, serde)),
            !.required = @ \cup {tag, content_tag}]

AdjacentSchema(var, serde, enum_name) ==
    LET tag == serde.enum_tag_type.tag
        content_tag == serde.enum_tag_type.content
        wrapper_schema == AdjacentTagOnly(var, serde, enum_name)
    IN IF InnerGenEmpty(var)
       THEN [wrapper_schema EXCEPT !.required = @ \cup {tag}]
       ELSE [wrapper_schema EXCEPT
                !.properties = BTreeMapInsert(@, content_tag, InnerGen(var, serde)),
                !.required = @ \cup {tag, content_tag}]

\* The mutant of VariantSchema that, under external tagging, wraps a unit
\* variant in an object as it does a variant with data.
VariantSchema_UnitAsObject(var, serde, enum_name) ==
    CASE serde.enum_tag_type.kind = "External" -> ExternalSchema(var, serde)
      [] var.fields.kind = "Unit" /\ serde.enum_tag_type.kind = "Untagged" ->
            ConstSchema(var, serde)
      [] serde.enum_tag_type.kind = "Internal" -> InternalSchema(var, serde, enum_name)
      [] serde.enum_tag_type.kind = "Adjacent" -> AdjacentSchema(var, serde, enum_name)
      [] OTHER -> InnerGen(var, serde)

\* What is pushed on `schema.any_of` for a variant.
VariantSchema(var, serde, enum_name) ==
    IF var.fields.kind = "Unit" /\ SimpleConstants(serde)
    THEN ConstSchema(var, serde)
    ELSE CASE serde.enum_tag_type.kind = "External" -> ExternalSchema(var, serde)
           [] serde.enum_tag_type.kind = "Internal" -> InternalSchema(var, serde, enum_name)
           [] serde.enum_tag_type.kind = "Adjacent" -> AdjacentSchema(var, serde, enum_name)
           [] serde.enum_tag_type.kind = "Untagged" -> InnerGen(var, serde)

\* The mutant of EnumVariantStep that lists a unit variant as a plain string
\* value whatever the other variants are.
EnumVariantStep_UnitsAsValues(schema, e, var, serde) ==
    IF SimpleConstants(serde) /\ var.fields.kind = "Unit"
    THEN [schema EXCEPT !.data_type = Some("String"),
                         !.enum_ = Append(@, JString(VariantName(var, serde)))]
    ELSE [schema EXCEPT !.any_of = Append(@, VariantSchema(var, serde, EnumName(schema)))]

\* What one variant does to `schema`: one iteration of the loop of
\* handle_enum.
EnumVariantStep(schema, e, var, serde) ==
    IF OnlySimpleConstants(e, serde)
    THEN [schema EXCEPT !.enum_ = Append(@, JString(VariantName(var, serde)))]
    ELSE [schema EXCEPT !.any_of = Append(@, VariantSchema(var, serde, EnumName(schema)))]

RECURSIVE FoldVariants(_, _, _, _)
FoldVariants(schema, e, i, serde) ==
    IF i > Len(Variants(e))
    THEN schema
    ELSE FoldVariants(EnumVariantStep(schema, e, Variants(e)[i], serde), e, i + 1, serde)

handle_enum(schema, e, docs, serde) ==
    FoldVariants(EnumHeader(schema, e, docs, serde), e, 1, serde)

-----------------------------------------------------------------------------
(* emit_v2_definition: the name and the generated raw_schema() *)

\* `base_name`
BaseName(item) == IF IsSome(item.rename) THEN Unwrap(item.rename) ELSE item.ident

\* The names of the type arguments that have one, in declaration order.
RECURSIVE TypeNames(_, _)
\* Mutant: a type argument without a name is listed with an empty name.
TypeNames_KeepUnnamed(type_params, i) ==
    IF i > Len(type_params)
    THEN <<>>
    ELSE (IF IsSome(type_params[i].name) THEN <<Unwrap(type_params[i].name)>> ELSE <<"">>)
            \o TypeNames(type_params, i + 1)

TypeNames(type_params, i) ==
    IF i > Len(type_params)
    THEN <<>>
    ELSE (IF IsSome(type_params[i].name) THEN <<Unwrap(type_params[i].name)>> ELSE <<>>)
            \o TypeNames(type_params, i + 1)

\* [String]::join
RECURSIVE Join(_, _)
Join(strings, sep) ==
    IF Len(strings) = 0
    THEN ""
    ELSE IF Len(strings) = 1
         THEN strings[1]
         ELSE strings[1] \o sep \o Join(Tail(strings), sep)

\* The mutant of SchemaName that leaves the type arguments out of the name.
SchemaName_BaseOnly(item) == BaseName(item)

\* `schema_name`
SchemaName(item) ==
    IF Len(item.type_params) = 0
    THEN BaseName(item)
    ELSE BaseName(item) \o "<" \o Join(TypeNames(item.type_params, 1), ", ") \o ">"

\* `open_api_name`, without the feature "path-in-definition".
OpenApiName(item) == IF item.inline THEN None ELSE Some(SchemaName(item))

\* `default_schema_raw_def`
DefaultSchemaRawDef(item) ==
    [SchemaRawDefault EXCEPT
        !.name = OpenApiName(item),
        !.example = IF IsSome(item.example) THEN ExampleValue(Unwrap(item.example)) ELSE None]

\* The first statement generated for a struct.
StructHeader(schema) == [schema EXCEPT !.data_type = Some("Object")]

\* `props_gen`, run on `schema`.
PropsGen(schema, item) ==
    IF item.data.kind = "Struct"
    THEN CASE item.data.fields.kind = "Named" ->
                handle_field_struct(StructHeader(schema), item.data.fields, item.docs,
                                    item.serde)
           [] item.data.fields.kind = "Unnamed" ->
                handle_unnamed_field_struct(StructHeader(schema), item.data.fields, item)
           [] item.data.fields.kind = "Unit" -> StructHeader(schema)
    ELSE handle_enum(schema, item.data, item.docs, item.serde)

\* The last statement of raw_schema(): props_gen is never empty, so the name
\* is set again.
SetName(schema, item) == [schema EXCEPT !.name = OpenApiName(item)]

raw_schema(item) == SetName(PropsGen(DefaultSchemaRawDef(item), item), item)

\* The impl of Apiv2Schema that emit_v2_definition generates for item.
Apiv2SchemaOf(item) ==
    Apiv2Schema(OpenApiName(item), Trim(item.docs), TRUE, raw_schema(item))

-----------------------------------------------------------------------------
(* The type declarations that are built *)

FieldIdents == <<"id", "r#match", "owner", "note">>

VariantIdents == <<"Cat", "Dog", "Fish", "Bird">>

\* /// A pet
\* struct Pet { id: i64, owner: Option<String> }
PetItem ==
    [DeriveInput("Pet", DataStruct(Fields("Named",
        <<Field("id", TypeI64), Field("owner", OptionOf(TypeString))>>)))
     EXCEPT !.docs = " A pet"]

TypePet == Apiv2SchemaOf(PetItem)

\* /// Inline part
\* #[openapi(inline)]
\* struct Inl { note: String, pet: Pet }
InlItem ==
    [DeriveInput("Inl", DataStruct(Fields("Named",
        <<Field("note", TypeString), Field("pet", TypePet)>>)))
     EXCEPT !.docs = " Inline part", !.inline = TRUE]

TypeInl == Apiv2SchemaOf(InlItem)

\* struct Mid { inl: Inl }
MidItem == DeriveInput("Mid", DataStruct(Fields("Named", <<Field("inl", TypeInl)>>)))

TypeMid == Apiv2SchemaOf(MidItem)

\* Attributes of a field that bear on whether it is a property and whether
\* it is required.
RequirednessAttrs ==
    {[skip |-> FALSE], [skip |-> TRUE], [flatten |-> TRUE], [required |-> TRUE],
     [optional |-> TRUE], [required |-> TRUE, optional |-> TRUE],
     [rename |-> Some("id")]}

\* Attributes of a field that bear on the schema of its property.
MetadataAttrs ==
    {[skip |-> FALSE], [docs |-> " The owner"], [docs |-> " "], [example |-> Some("42")],
     [priority |-> Some(1), collapsed |-> TRUE], [gated |-> Some("beta")],
     [inline |-> TRUE, docs |-> " The owner"]}

\* Attributes of an element of a tuple struct.
ElementAttrs ==
    {[skip |-> FALSE], [skip |-> TRUE], [flatten |-> TRUE], [docs |-> " The owner"],
     [optional |-> TRUE], [inline |-> TRUE]}

RequirednessTypes == {TypeString, OptionOf(TypeString), TypePet}

MetadataTypes == {TypeString, TypePet, TypeInl, TypeMid}

ElementTypes == {TypeString, TypePet, OptionOf(TypePet)}

\* The fields, not yet named, whose attributes are drawn from attrs and whose
\* types are drawn from types.
FieldChoices(attrs, types) == {a @@ Field("", ty) : a \in attrs, ty \in types}

\* The field at position i of a struct is declared as FieldIdents[i].
Declared(list) == [i \in DOMAIN list |-> [list[i] EXCEPT !.ident = FieldIdents[i]]]

\* struct Order { .. }, for the requiredness of its fields.
RequirednessStruct(item) ==
    \E n \in 0..MaxFields :
    \E list \in [1..n -> FieldChoices(RequirednessAttrs, RequirednessTypes)] :
    \E h \in {[inline |-> FALSE], [inline |-> TRUE],
              [serde |-> SerdeProps(Some("Upper"), External)]} :
        item = h @@ DeriveInput("Order", DataStruct(Fields("Named", Declared(list))))

\* struct Order { .. }, for the metadata of its fields.
MetadataStruct(item) ==
    \E n \in 0..MaxFields :
    \E list \in [1..n -> FieldChoices(MetadataAttrs, MetadataTypes)] :
    \E h \in {[docs |-> " An order"],
              [example |-> Some("\"rex\""), rename |-> Some("Purchase")]} :
        item = h @@ DeriveInput("Order", DataStruct(Fields("Named", Declared(list))))

\* struct Pair(..); and the unit struct.
TupleStruct(item) ==
    \/ \E n \in 0..MaxFields :
       \E list \in [1..n -> FieldChoices(ElementAttrs, ElementTypes)] :
       \E h \in {[inline |-> FALSE], [inline |-> TRUE],
                 [inline |-> TRUE, docs |-> " An order"],
                 [priority |-> Some(1), example |-> Some("true")]} :
            item = h @@ DeriveInput("Pair", DataStruct(Fields("Unnamed", Declared(list))))
    \/ \E h \in {[inline |-> FALSE], [inline |-> TRUE]} :
            item = h @@ DeriveInput("Nothing", DataStruct(FieldsUnit))

\* What a variant may hold.
VariantFields ==
    [unit |-> FieldsUnit,
     named |-> Fields("Named", Declared(<<Field("", TypeI64)>>)),
     flat |-> Fields("Named", Declared(
                <<[Field("", TypeString) EXCEPT !.optional = TRUE],
                  [Field("", TypePet) EXCEPT !.flatten = TRUE]>>)),
     newtype |-> Fields("Unnamed", Declared(<<Field("", TypePet)>>)),
     text |-> Fields("Unnamed", Declared(<<Field("", TypeString)>>)),
     tuple |-> Fields("Unnamed", Declared(
                <<Field("", TypeI64), Field("", OptionOf(TypeString))>>))]

\* The variants, not yet named.
VariantChoices ==
    {EnumVariant("", VariantFields.unit),
     [skip |-> TRUE] @@ EnumVariant("", VariantFields.unit),
     [rename |-> Some("feline")] @@ EnumVariant("", VariantFields.unit),
     [docs |-> " A case"] @@ EnumVariant("", VariantFields.unit),
     EnumVariant("", VariantFields.named),
     [skip |-> TRUE] @@ EnumVariant("", VariantFields.named),
     [rename |-> Some("feline"), docs |-> " A case"] @@ EnumVariant("", VariantFields.named),
     EnumVariant("", VariantFields.flat),
     EnumVariant("", VariantFields.newtype),
     [docs |-> " A case"] @@ EnumVariant("", VariantFields.newtype),
     EnumVariant("", VariantFields.text),
     EnumVariant("", VariantFields.tuple)}

\* The variant at position i of an enum is declared as VariantIdents[i].
DeclaredVariants(list) ==
    [i \in DOMAIN list |-> [list[i] EXCEPT !.ident = VariantIdents[i]]]

TagTypes == {External, Internal("type"), Adjacent("type", "data"), Untagged}

\* enum Shape { .. }
TaggedEnum(item) ==
    \E n \in 0..MaxFields :
    \E list \in [1..n -> VariantChoices] :
    \E t \in TagTypes :
    \E h \in {[serde |-> SerdeProps(None, t)],
              [serde |-> SerdeProps(None, t), inline |-> TRUE],
              [serde |-> SerdeProps(Some("Lower"), t), docs |-> " An order"]} :
        item = h @@ DeriveInput("Shape", DataEnum(DeclaredVariants(list)))

\* struct Page<T, ..> { id: T, .. }, with its type parameters bound to args.
PageItem(args) ==
    [DeriveInput("Page", DataStruct(Fields("Named",
        Declared([i \in DOMAIN args |-> Field("", args[i])]))))
     EXCEPT !.type_params = args]

\* enum Choice<T, ..> { Cat, Dog { id: T }, .. }, tagged internally.
ChoiceItem(args) ==
    [DeriveInput("Choice", DataEnum(DeclaredVariants(
        <<EnumVariant("", FieldsUnit)>> \o
        [i \in DOMAIN args |->
            EnumVariant("", Fields("Named", Declared(<<Field("", args[i])>>)))])))
     EXCEPT !.type_params = args, !.serde = SerdeProps(None, Internal("type"))]

\* The types that a type parameter is bound to.
TypeArguments ==
    {TypeString, TypePet, TypeInl, TypeMid, Apiv2SchemaOf(PageItem(<<TypePet>>))}

\* Page<..> and Choice<..>
GenericItem(item) ==
    \E n \in 0..MaxTypeParams :
    \E args \in [1..n -> TypeArguments] :
    \E h \in {[inline |-> FALSE], [inline |-> TRUE], [rename |-> Some("Paged")]} :
        \/ item = h @@ PageItem(args)
        \/ item = h @@ ChoiceItem(args)

-----------------------------------------------------------------------------
(* The generated raw_schema(), statement by statement *)

BuilderInit ==
    /\ \/ RequirednessStruct(item_ast)
       \/ MetadataStruct(item_ast)
       \/ TupleStruct(item_ast)
       \/ TaggedEnum(item_ast)
       \/ GenericItem(item_ast)
    /\ builder_pc = "begin"
    /\ field_idx = 1
    /\ schema_raw = <<>>
    /\ v2 = V2Operation(None, <<>>, <<>>, <<>>)
    /\ pc = "idle"
    /\ idx = 1
    /\ request_body = None
    /\ form_data = None
    /\ parameters = <<>>
    /\ body_slot = None
    /\ v3 = None
    /\ debug_assertions = FALSE
    /\ source = [conv |-> "None", value |-> <<>>]
    /\ result = None
    /\ MacroIdle

\* The field, element or variant that the next statement is generated from.
fields == item_ast.data.fields
field == fields.list[field_idx]
variants == Variants(item_ast.data)
var == variants[field_idx]

RawSchemaBegin ==
    /\ builder_pc = "begin"
    /\ schema_raw' = DefaultSchemaRawDef(item_ast)
    /\ builder_pc' = "header"
    /\ UNCHANGED <<item_ast, field_idx, operation_vars, schema_vars, macro_vars>>

StructNamedHeader ==
    /\ builder_pc = "header"
    /\ item_ast.data.kind = "Struct" /\ fields.kind = "Named"
    /\ schema_raw' = FieldStructDocs(StructHeader(schema_raw), item_ast.docs)
    /\ builder_pc' = "fields"
    /\ UNCHANGED <<item_ast, field_idx, operation_vars, schema_vars, macro_vars>>

StructUnnamedHeader ==
    /\ builder_pc = "header"
    /\ item_ast.data.kind = "Struct" /\ fields.kind = "Unnamed"
    /\ schema_raw' = StructHeader(schema_raw)
    /\ builder_pc' = IF Len(fields.list) = 1 THEN "single" ELSE "elements"
    /\ UNCHANGED <<item_ast, field_idx, operation_vars, schema_vars, macro_vars>>

StructUnitHeader ==
    /\ builder_pc = "header"
    /\ item_ast.data.kind = "Struct" /\ fields.kind = "Unit"
    /\ schema_raw' = StructHeader(schema_raw)
    /\ builder_pc' = "finish"
    /\ UNCHANGED <<item_ast, field_idx, operation_vars, schema_vars, macro_vars>>

EnumHeaderStep ==
    /\ builder_pc = "header"
    /\ item_ast.data.kind = "Enum"
    /\ schema_raw' = EnumHeader(schema_raw, item_ast.data, item_ast.docs, item_ast.serde)
    /\ builder_pc' = "variants"
    /\ UNCHANGED <<item_ast, field_idx, operation_vars, schema_vars, macro_vars>>

NamedField == builder_pc = "fields" /\ field_idx <= Len(fields.list)

NamedFieldStep ==
    /\ schema_raw' = FieldStructField(schema_raw, field, item_ast.serde)
    /\ field_idx' = field_idx + 1
    /\ UNCHANGED <<item_ast, builder_pc, operation_vars, schema_vars, macro_vars>>

NamedFieldSkipped == NamedField /\ field.skip /\ NamedFieldStep

NamedFieldProperty == NamedField /\ ~field.skip /\ ~field.flatten /\ NamedFieldStep

NamedFieldFlattened == NamedField /\ ~field.skip /\ field.flatten /\ NamedFieldStep

SingleStep ==
    /\ builder_pc = "single"
    /\ schema_raw' = UnnamedSingle(field, item_ast)
    /\ builder_pc' = "finish"
    /\ UNCHANGED <<item_ast, field_idx, operation_vars, schema_vars, macro_vars>>

SingleSkipped == SingleStep /\ field.skip

SingleInner == SingleStep /\ ~field.skip

Element == builder_pc = "elements" /\ field_idx <= Len(fields.list)

ElementStep ==
    /\ schema_raw' = UnnamedElement(schema_raw, field, field_idx - 1)
    /\ field_idx' = field_idx + 1
    /\ UNCHANGED <<item_ast, builder_pc, operation_vars, schema_vars, macro_vars>>

ElementSkipped == Element /\ field.skip /\ ElementStep

ElementProperty == Element /\ ~field.skip /\ ~field.flatten /\ ElementStep

ElementFlattened == Element /\ ~field.skip /\ field.flatten /\ ElementStep

EnumVariantNext == builder_pc = "variants" /\ field_idx <= Len(variants)

VariantStep ==
    /\ schema_raw' = EnumVariantStep(schema_raw, item_ast.data, var, item_ast.serde)
    /\ field_idx' = field_idx + 1
    /\ UNCHANGED <<item_ast, builder_pc, operation_vars, schema_vars, macro_vars>>

Tagging == item_ast.serde.enum_tag_type.kind

\* The variant is listed as a plain string value.
VariantEnumValue ==
    /\ EnumVariantNext
    /\ OnlySimpleConstants(item_ast.data, item_ast.serde)
    /\ VariantStep

\* What follows is for an enum that is not made of simple constants only.
VariantAnyOf == EnumVariantNext /\ ~OnlySimpleConstants(item_ast.data, item_ast.serde)

VariantConst ==
    /\ VariantAnyOf
    /\ var.fields.kind = "Unit" /\ SimpleConstants(item_ast.serde)
    /\ VariantStep

VariantExternal ==
    /\ VariantAnyOf
    /\ var.fields.kind # "Unit" /\ Tagging = "External"
    /\ VariantStep

VariantInternal == VariantAnyOf /\ Tagging = "Internal" /\ VariantStep

VariantAdjacentUnit ==
    /\ VariantAnyOf
    /\ var.fields.kind = "Unit" /\ Tagging = "Adjacent"
    /\ VariantStep

VariantAdjacent ==
    /\ VariantAnyOf
    /\ var.fields.kind # "Unit" /\ Tagging = "Adjacent"
    /\ VariantStep

VariantUntagged ==
    /\ VariantAnyOf
    /\ var.fields.kind # "Unit" /\ Tagging = "Untagged"
    /\ VariantStep

\* The loop over the fields, elements or variants has ended.
PropsGenEnd ==
    /\ \/ builder_pc \in {"fields", "elements"} /\ field_idx > Len(fields.list)
       \/ builder_pc = "variants" /\ field_idx > Len(variants)
    /\ builder_pc' = "finish"
    /\ UNCHANGED <<item_ast, field_idx, schema_raw, operation_vars, schema_vars, macro_vars>>

RawSchemaReturn ==
    /\ builder_pc = "finish"
    /\ schema_raw' = SetName(schema_raw, item_ast)
    /\ builder_pc' = "done"
    /\ UNCHANGED <<item_ast, field_idx, operation_vars, schema_vars, macro_vars>>

BuilderNext ==
    \/ RawSchemaBegin
    \/ StructNamedHeader
    \/ StructUnnamedHeader
    \/ StructUnitHeader
    \/ EnumHeaderStep
    \/ NamedFieldSkipped
    \/ NamedFieldProperty
    \/ NamedFieldFlattened
    \/ SingleSkipped
    \/ SingleInner
    \/ ElementSkipped
    \/ ElementProperty
    \/ ElementFlattened
    \/ VariantEnumValue
    \/ VariantConst
    \/ VariantExternal
    \/ VariantInternal
    \/ VariantAdjacentUnit
    \/ VariantAdjacent
    \/ VariantUntagged
    \/ PropsGenEnd
    \/ RawSchemaReturn

BuilderSpec == BuilderInit /\ [][BuilderNext]_vars


-----------------------------------------------------------------------------
(* SerdeProps::from_item_attrs *)

\* syn::Lit: a string literal, or another literal.
LitStr(s) == [kind |-> "Str", value |-> s]

LitBool(s) == [kind |-> "Bool", value |-> s]

\* syn::NestedMeta: `name = lit`, `name`, `name(..)`.
NameValue(name, lit) == [kind |-> "NameValue", name |-> name, lit |-> lit]

Path(name) == [kind |-> "Path", name |-> name, lit |-> LitStr("")]

MetaList(name) == [kind |-> "List", name |-> name, lit |-> LitStr("")]

\* syn::Attribute parsed as Meta::List: #[path(nested, ..)].
Attribute(path, nested) == [path |-> path, nested |-> nested]

\* <SerdeRename as FromStr>::from_str(..).ok(), as strum derives it.
ParseSerdeRename(s) ==
    CASE s = "lowercase" -> Some("Lower")
      [] s = "UPPERCASE" -> Some("Upper")
      [] s = "PascalCase" -> Some("Pascal")
      [] s = "camelCase" -> Some("Camel")
      [] s = "snake_case" -> Some("Snake")
      [] s = "SCREAMING_SNAKE_CASE" -> Some("ScreamingSnake")
      [] s = "kebab-case" -> Some("Kebab")
      [] s = "SCREAMING-KEBAB-CASE" -> Some("ScreamingKebab")
      [] OTHER -> None

\* The nested metas that the attributes are made of.
SerdeMetas ==
    {NameValue("tag", LitStr("type")), NameValue("tag", LitStr("kind")),
     NameValue("tag", LitBool("true")),
     NameValue("content", LitStr("data")),
     NameValue("rename_all", LitStr("lowercase")),
     NameValue("rename_all", LitStr("Title Case")),
     NameValue("crate", LitStr("serde")),
     Path("untagged"), Path("deny_unknown_fields"),
     MetaList("bound")}

\* The attributes of an item: #[serde(..)] with one nested meta, with two,
\* with none, and attributes of other macros.
ItemAttributes ==
    {Attribute("serde", <<m>>) : m \in SerdeMetas}
    \cup {Attribute("serde", <<NameValue("tag", LitStr("type")),
                               NameValue("content", LitStr("data"))>>),
          Attribute("serde", <<Path("untagged"), NameValue("tag", LitStr("kind"))>>),
          Attribute("serde", <<>>),
          Attribute("openapi", <<Path("untagged")>>),
          Attribute("openapi", <<NameValue("tag", LitStr("type"))>>),
          Attribute("derive", <<Path("Serialize")>>)}

SerdeInit ==
    /\ \E n \in 0..MaxAttrs : item_attrs \in [1..n -> ItemAttributes]
    /\ attrs_pc = "attrs"
    /\ attr_idx = 1
    /\ meta_idx = 1
    /\ props = SerdePropsDefault
    /\ enum_tag = None
    /\ enum_content_tag = None
    /\ v2 = V2Operation(None, <<>>, <<>>, <<>>)
    /\ pc = "idle"
    /\ idx = 1
    /\ request_body = None
    /\ form_data = None
    /\ parameters = <<>>
    /\ body_slot = None
    /\ v3 = None
    /\ debug_assertions = FALSE
    /\ source = [conv |-> "None", value |-> <<>>]
    /\ result = None
    /\ BuilderIdle
    /\ ErrorsIdle

\* The attribute and the nested meta that the next step reads.
InAttrs == attrs_pc = "attrs" /\ attr_idx <= Len(item_attrs)

attr == item_attrs[attr_idx]

InNested == InAttrs /\ attr.path = "serde" /\ meta_idx <= Len(attr.nested)

meta == attr.nested[meta_idx]

\* One more nested meta has been read.
MetaStep ==
    /\ meta_idx' = meta_idx + 1
    /\ UNCHANGED <<item_attrs, attrs_pc, attr_idx, operation_vars, schema_vars, builder_vars, errors_vars>>

\* _ => continue: the attribute is not #[serde(..)]
AttrContinue ==
    /\ InAttrs
    /\ attr.path # "serde"
    /\ attr_idx' = attr_idx + 1
    /\ UNCHANGED <<item_attrs, attrs_pc, meta_idx, props, enum_tag, enum_content_tag,
                   operation_vars, schema_vars, builder_vars, errors_vars>>

\* The nested metas of a #[serde(..)] have all been read.
AttrNext ==
    /\ InAttrs
    /\ attr.path = "serde" /\ meta_idx > Len(attr.nested)
    /\ attr_idx' = attr_idx + 1
    /\ meta_idx' = 1
    /\ UNCHANGED <<item_attrs, attrs_pc, props, enum_tag, enum_content_tag,
                   operation_vars, schema_vars, builder_vars, errors_vars>>

\* "rename_all"
MetaRenameAll ==
    /\ InNested
    /\ meta.kind = "NameValue" /\ meta.name = "rename_all"
    /\ props' = IF meta.lit.kind = "Str"
                THEN [props EXCEPT !.rename = ParseSerdeRename(meta.lit.value)]
                ELSE props
    /\ MetaStep
    /\ UNCHANGED <<enum_tag, enum_content_tag>>

\* "tag"
MetaTag ==
    /\ InNested
    /\ meta.kind = "NameValue" /\ meta.name = "tag"
    /\ enum_tag' = IF meta.lit.kind = "Str" THEN Some(meta.lit.value) ELSE enum_tag
    /\ MetaStep
    /\ UNCHANGED <<props, enum_content_tag>>

\* "content"
MetaContent ==
    /\ InNested
    /\ meta.kind = "NameValue" /\ meta.name = "content"
    /\ enum_content_tag' =
            IF meta.lit.kind = "Str" THEN Some(meta.lit.value) ELSE enum_content_tag
    /\ MetaStep
    /\ UNCHANGED <<props, enum_tag>>

\* _ => {}: another `name = lit`
MetaNameValueOther ==
    /\ InNested
    /\ meta.kind = "NameValue" /\ meta.name \notin {"rename_all", "tag", "content"}
    /\ MetaStep
    /\ UNCHANGED <<props, enum_tag, enum_content_tag>>

\* `untagged`
MetaUntagged ==
    /\ InNested
    /\ meta.kind = "Path" /\ meta.name = "untagged"
    /\ props' = [props EXCEPT !.enum_tag_type = Untagged]
    /\ MetaStep
    /\ UNCHANGED <<enum_tag, enum_content_tag>>

\* Another path.
MetaPathOther ==
    /\ InNested
    /\ meta.kind = "Path" /\ meta.name # "untagged"
    /\ MetaStep
    /\ UNCHANGED <<props, enum_tag, enum_content_tag>>

\* _ => continue
MetaContinue ==
    /\ InNested
    /\ meta.kind \notin {"NameValue", "Path"}
    /\ MetaStep
    /\ UNCHANGED <<props, enum_tag, enum_content_tag>>

\* The mutant of SelectTagType that lets the untagged marker win over a tag.
SelectTagType_UntaggedWins(p_, tag_, content_) ==
    IF p_.enum_tag_type = Untagged THEN p_
    ELSE IF IsSome(tag_)
         THEN IF IsSome(content_)
              THEN [p_ EXCEPT !.enum_tag_type = Adjacent(Unwrap(tag_), Unwrap(content_))]
              ELSE [p_ EXCEPT !.enum_tag_type = Internal(Unwrap(tag_))]
         ELSE p_

\* `enum_tag_type` once the attributes have been read.
SelectTagType(p_, tag_, content_) ==
    IF IsSome(tag_)
    THEN IF IsSome(content_)
         THEN [p_ EXCEPT !.enum_tag_type = Adjacent(Unwrap(tag_), Unwrap(content_))]
         ELSE [p_ EXCEPT !.enum_tag_type = Internal(Unwrap(tag_))]
    ELSE p_

\* if let Some(tag) = enum_tag { .. }; props
FromItemAttrsReturn ==
    /\ attrs_pc = "attrs" /\ attr_idx > Len(item_attrs)
    /\ props' = SelectTagType(props, enum_tag, enum_content_tag)
    /\ attrs_pc' = "done"
    /\ UNCHANGED <<item_attrs, attr_idx, meta_idx, enum_tag, enum_content_tag,
                   operation_vars, schema_vars, builder_vars, errors_vars>>

SerdeNext ==
    \/ AttrContinue
    \/ AttrNext
    \/ MetaRenameAll
    \/ MetaTag
    \/ MetaContent
    \/ MetaNameValueOther
    \/ MetaUntagged
    \/ MetaPathOther
    \/ MetaContinue
    \/ FromItemAttrsReturn

SerdeSpec == SerdeInit /\ [][SerdeNext]_vars

-----------------------------------------------------------------------------
(* emit_v2_errors: the attribute list of #[api_v2_errors(..)] *)

\* syn::LitInt by its value; a string literal here holds the tokens that its
\* text is made of.
LitInt(n) == [kind |-> "Int", value |-> n]

\* NestedMeta::Lit
NestedLit(lit) == [kind |-> "Lit", name |-> "", lit |-> lit]

ErrorAttributes ==
    {NameValue("code", LitInt(400)),
     NameValue("code", LitInt(404)),
     NameValue("code", LitInt(70000)),
     NameValue("code", LitStr(<<"400">>)),
     NestedLit(LitInt(500)),
     NestedLit(LitInt(42)),
     NameValue("description", LitStr(<<"Bad input">>)),
     NameValue("description", LitStr(<<"Missing">>)),
     NameValue("schema", LitStr(<<"ErrBody">>)),
     NameValue("schema", LitStr(<<"api", "::", "ErrBody">>)),
     NameValue("default_schema", LitStr(<<"Fallback">>)),
     Path("code")}

\* LitInt::base10_parse::<u16>().ok()
Base10ParseU16(lit) == IF lit.value < 65536 THEN Some(lit.value) ELSE None

\* LitStr::value(): the text of the literal.
LitStrValue(lit) == Join(lit.value, "")

\* LitStr::parse::<syn::Ident>().ok(): the text must be one identifier.
ParseIdent(lit) ==
    IF Len(lit.value) = 1 /\ lit.value[1] # "::" THEN Some(lit.value[1]) ELSE None

\* emit_error!(span, ..) and emit_warning!(span, ..), the span by the index
\* of the attribute.
Diagnostic(level, span) == [level |-> level, span |-> span]

\* One element of `list`.
Quad(code, description, schema_ident, span) ==
    [code |-> code, description |-> description, schema |-> schema_ident, span |-> span]

\* StatusCode::from_u16(code) and canonical_reason(), as the description of
\* a code that has none and the warning that goes with an empty one.
CanonicalReason(code) ==
    CASE code = 400 -> "Bad Request"
      [] code = 404 -> "Not Found"
      [] code = 500 -> "Internal Server Error"
      [] OTHER -> ""

ErrorsInit ==
    /\ \E n \in 0..MaxErrorAttrs : error_attrs \in [1..n -> ErrorAttributes]
    /\ errors_pc = "fold"
    /\ error_idx = 1
    /\ code_list = <<>>
    /\ default_schema = None
    /\ diagnostics = <<>>
    /\ error_codes = <<>>
    /\ error_map = <<>>
    /\ v2 = V2Operation(None, <<>>, <<>>, <<>>)
    /\ pc = "idle"
    /\ idx = 1
    /\ request_body = None
    /\ form_data = None
    /\ parameters = <<>>
    /\ body_slot = None
    /\ v3 = None
    /\ debug_assertions = FALSE
    /\ source = [conv |-> "None", value |-> <<>>]
    /\ result = None
    /\ BuilderIdle
    /\ SerdeIdle

Folding == errors_pc = "fold" /\ error_idx <= Len(error_attrs)

error_attr == error_attrs[error_idx]

IsNamed(name, lit_kind) ==
    /\ error_attr.kind = "NameValue"
    /\ error_attr.name = name
    /\ error_attr.lit.kind = lit_kind

\* What every step of the fold leaves alone.
FoldStep ==
    /\ error_idx' = error_idx + 1
    /\ UNCHANGED <<error_attrs, errors_pc, error_codes, error_map, operation_vars,
                   schema_vars, builder_vars, serde_vars>>

\* list.push((status_code, None, None, attr)), with the error of a value
\* that is no u16.
PushCode ==
    /\ code_list' = Append(code_list,
                           Quad(Base10ParseU16(error_attr.lit), None, None, error_idx))
    /\ diagnostics' = IF Base10ParseU16(error_attr.lit) = None
                      THEN Append(diagnostics, Diagnostic("error", error_idx))
                      ELSE diagnostics
    /\ UNCHANGED default_schema

\* (Some("code"), Lit::Int(attr_value))
AttrCode ==
    /\ Folding
    /\ IsNamed("code", "Int")
    /\ PushCode
    /\ FoldStep

\* NestedMeta::Lit(Lit::Int(attr_value))
AttrPlainCode ==
    /\ Folding
    /\ error_attr.kind = "Lit"
    /\ error_attr.lit.kind = "Int"
    /\ PushCode
    /\ FoldStep

\* Mutant: the description is given to the first code of the list.
AttrDescription_FirstCode ==
    /\ Folding
    /\ IsNamed("description", "Str")
    /\ IF code_list # <<>>
       THEN /\ code_list' = [code_list EXCEPT
                                ![1].description = Some(LitStrValue(error_attr.lit))]
            /\ diagnostics' = IF code_list[1].description # None
                              THEN Append(diagnostics, Diagnostic("warning", error_idx))
                              ELSE diagnostics
       ELSE /\ code_list' = code_list
            /\ diagnostics' = Append(diagnostics, Diagnostic("error", error_idx))
    /\ UNCHANGED default_schema
    /\ FoldStep

\* (Some("description"), Lit::Str(attr_value))
AttrDescription ==
    /\ Folding
    /\ IsNamed("description", "Str")
    /\ IF code_list # <<>>
       THEN /\ code_list' = [code_list EXCEPT
                                ![Len(code_list)].description =
                                    Some(LitStrValue(error_attr.lit))]
            /\ diagnostics' = IF code_list[Len(code_list)].description # None
                              THEN Append(diagnostics, Diagnostic("warning", error_idx))
                              ELSE diagnostics
       ELSE /\ code_list' = code_list
            /\ diagnostics' = Append(diagnostics, Diagnostic("error", error_idx))
    /\ UNCHANGED default_schema
    /\ FoldStep

\* (Some("schema"), Lit::Str(attr_value))
AttrSchema ==
    /\ Folding
    /\ IsNamed("schema", "Str")
    /\ IF code_list # <<>>
       THEN LET overwrites == code_list[Len(code_list)].schema # None
                warned == IF overwrites
                          THEN Append(diagnostics, Diagnostic("warning", error_idx))
                          ELSE diagnostics
            IN  IF ParseIdent(error_attr.lit) # None
                THEN /\ code_list' = [code_list EXCEPT
                                        ![Len(code_list)].schema = ParseIdent(error_attr.lit)]
                     /\ diagnostics' = warned
                ELSE /\ code_list' = code_list
                     /\ diagnostics' = Append(warned, Diagnostic("error", error_idx))
       ELSE /\ code_list' = code_list
            /\ diagnostics' = Append(diagnostics, Diagnostic("error", error_idx))
    /\ UNCHANGED default_schema
    /\ FoldStep

\* (Some("default_schema"), Lit::Str(attr_value))
AttrDefaultSchema ==
    /\ Folding
    /\ IsNamed("default_schema", "Str")
    /\ IF ParseIdent(error_attr.lit) # None
       THEN /\ default_schema' = ParseIdent(error_attr.lit)
            /\ diagnostics' = diagnostics
       ELSE /\ default_schema' = default_schema
            /\ diagnostics' = Append(diagnostics, Diagnostic("error", error_idx))
    /\ UNCHANGED code_list
    /\ FoldStep

\* The two `_` arms: a name and literal that are none of the above, and
\* anything that is neither `name = literal` nor an integer literal.
AttrInvalid ==
    /\ Folding
    /\ ~IsNamed("code", "Int")
    /\ ~(error_attr.kind = "Lit" /\ error_attr.lit.kind = "Int")
    /\ ~IsNamed("description", "Str")
    /\ ~IsNamed("schema", "Str")
    /\ ~IsNamed("default_schema", "Str")
    /\ diagnostics' = Append(diagnostics, Diagnostic("error", error_idx))
    /\ UNCHANGED <<code_list, default_schema>>
    /\ FoldStep

\* The filter_map over the list: the elements whose code is a u16, each with
\* its description or else the canonical reason of the code, and its schema.
RECURSIVE FilterMapQuads(_, _)
FilterMapQuads(quads, n) ==
    IF n > Len(quads) THEN <<>>
    ELSE LET quad == quads[n]
         IN  (IF quad.code = None THEN <<>>
              ELSE <<[code |-> Unwrap(quad.code),
                      description |-> IF quad.description # None
                                      THEN Unwrap(quad.description)
                                      ELSE CanonicalReason(Unwrap(quad.code)),
                      schema |-> quad.schema]>>)
             \o FilterMapQuads(quads, n + 1)

\* The warnings of the filter_map: a code without a description that is no
\* status code or has no canonical reason.
RECURSIVE FilterMapWarnings(_, _)
FilterMapWarnings(quads, n) ==
    IF n > Len(quads) THEN <<>>
    ELSE LET quad == quads[n]
         IN  (IF /\ quad.code # None
                 /\ quad.description = None
                 /\ CanonicalReason(Unwrap(quad.code)) = ""
              THEN <<Diagnostic("warning", quad.span)>>
              ELSE <<>>)
             \o FilterMapWarnings(quads, n + 1)

\* `error_codes` collected and `error_map` folded from it.
CollectErrorCodes ==
    /\ errors_pc = "fold"
    /\ error_idx > Len(error_attrs)
    /\ error_codes' = FilterMapQuads(code_list, 1)
    /\ error_map' = [j \in DOMAIN FilterMapQuads(code_list, 1) |->
                        <<FilterMapQuads(code_list, 1)[j].code,
                          FilterMapQuads(code_list, 1)[j].description>>]
    /\ diagnostics' = diagnostics \o FilterMapWarnings(code_list, 1)
    /\ errors_pc' = "done"
    /\ UNCHANGED <<error_attrs, error_idx, code_list, default_schema, operation_vars,
                   schema_vars, builder_vars, serde_vars>>

ErrorsNext ==
    \/ AttrCode
    \/ AttrPlainCode
    \/ AttrDescription
    \/ AttrSchema
    \/ AttrDefaultSchema
    \/ AttrInvalid
    \/ CollectErrorCodes

ErrorsSpec == ErrorsInit /\ [][ErrorsNext]_vars

-----------------------------------------------------------------------------
(* Vocabulary of the properties: the input seen by location *)

IsBody(q) == q.kind = "Parameter" /\ q.in_ = "body"

IsForm(q) == q.kind = "Parameter" /\ q.in_ = "formData"

\* A form parameter that contributes a field: it carries a schema.
IsFormField(q) == IsForm(q) /\ q.schema # None

IsPassthrough(q) == q.kind = "Reference" \/ q.in_ \in {"path", "query", "header"}

BodyIndexes == {j \in DOMAIN v2.parameters : IsBody(v2.parameters[j])}

FormIndexes == {j \in DOMAIN v2.parameters : IsForm(v2.parameters[j])}

FormFieldIndexes == {j \in DOMAIN v2.parameters : IsFormField(v2.parameters[j])}

Max(S) == CHOOSE x \in S : \A y \in S : y <= x

Min(S) == CHOOSE x \in S : \A y \in S : x <= y

Range(f) == {f[j] : j \in DOMAIN f}

Converted == pc = "done"

Output == Unwrap(v3)

\* The schemas carried by the media types of the output's request payload.
PayloadSchemas ==
    IF Output.request_body = None THEN {}
    ELSE LET content == Unwrap(Output.request_body).value.content
         IN  {content[j].value.schema : j \in DOMAIN content}

IsSynthesized(schema) ==
    /\ schema # None
    /\ Unwrap(schema).kind = "Item"
    /\ Unwrap(schema).value.schema_kind.kind = "Any"

-----------------------------------------------------------------------------
(* Properties of the operation conversion *)

\* C1: with exactly one body parameter and one or more form parameters, in
\* any order, the request payload of the converted operation is the one
\* derived from the body parameter, and the object schema synthesized from
\* the form parameters is nowhere in the output.
C1_ExplicitBodyIsSolePayload ==
    (Converted /\ Cardinality(BodyIndexes) = 1 /\ FormIndexes # {}) =>
        LET body == v2.parameters[CHOOSE j \in BodyIndexes : TRUE]
        IN  /\ Output.request_body = Some(Item(RequestBodyOf(body)))
            /\ \A schema \in PayloadSchemas : ~IsSynthesized(schema)
            /\ \A j \in DOMAIN Output.parameters :
                  Output.parameters[j].kind = "Item" =>
                      Output.parameters[j].value.location \notin {"body", "formData"}

\* One body parameter after two form fields, with media types declared: the
\* synthesized schema existed and lost to the body.
C1_Witness ==
    /\ Converted
    /\ Cardinality(BodyIndexes) = 1
    /\ Cardinality(FormFieldIndexes) = 2
    /\ Max(FormFieldIndexes) < Min(BodyIndexes)
    /\ v2.consumes # None /\ Unwrap(v2.consumes) # <<>>
    /\ form_data # None

\* C2: three form parameters with distinct names, exactly one of them
\* required at whatever position, and no body parameter, convert to one
\* request payload whose schema is an object with three properties and a
\* required set of size one.  Stated for the case most favourable to it:
\* every form parameter carries a schema and media types are declared.
C2_ThreeFormFieldsOneRequired ==
    (/\ Converted
     /\ Len(v2.parameters) = 3
     /\ Cardinality(FormFieldIndexes) = 3
     /\ Cardinality({v2.parameters[j].name : j \in FormFieldIndexes}) = 3
     /\ Cardinality({j \in FormFieldIndexes : v2.parameters[j].required}) = 1
     /\ v2.consumes # None /\ Unwrap(v2.consumes) # <<>>) =>
        /\ Output.request_body # None
        /\ \A schema \in PayloadSchemas :
              /\ IsSynthesized(schema)
              /\ LET any == Unwrap(schema).value.schema_kind.value
                 IN  /\ Cardinality(IndexMapKeys(any.properties)) = 3
                     /\ Len(any.required) = 1

\* C3: after the scan the required set of the synthesized form schema is
\* exactly the set of names of the form parameters whose required flag is
\* set, whatever their position (counting the form parameters that carry a
\* schema, the only ones that become fields).
C3_RequiredPropagatesPerField ==
    (ScanDone /\ form_data # None) =>
        Range(Unwrap(form_data).required) =
            {v2.parameters[j].name : j \in {i \in FormFieldIndexes : v2.parameters[i].required}}

\* C4, as claimed: with two or more body parameters the request payload is
\* the one derived from the first of them in parameter order.
C4_FirstBodyWins ==
    (Converted /\ Cardinality(BodyIndexes) >= 2) =>
        Output.request_body = Some(Item(RequestBodyOf(v2.parameters[Min(BodyIndexes)])))

\* C4, amended: with two or more body parameters the request payload is the
\* one derived from the last of them in parameter order; each body parameter
\* met replaces the one held.
C4_LastBodyWins ==
    /\ (Converted /\ Cardinality(BodyIndexes) >= 2) =>
          Output.request_body = Some(Item(RequestBodyOf(v2.parameters[Max(BodyIndexes)])))
    /\ \A j \in BodyIndexes :
          (pc = "scan" /\ idx = j + 1) =>
              request_body = Some(RequestBodyOf(v2.parameters[j]))

\* Two different body parameters were converted.
C4_Witness ==
    /\ Converted
    /\ Cardinality(BodyIndexes) >= 2
    /\ v2.parameters[Min(BodyIndexes)] # v2.parameters[Max(BodyIndexes)]

\* What each enumerated response key denotes as an unsigned 16-bit code,
\* and whether it denotes one at all.
DenotesCode(k) == k \in {Str200, Str404, Str0200, StrPlus200, Str65535}

CodeDenoted(k) ==
    CASE k = Str200 -> 200
      [] k = Str404 -> 404
      [] k = Str0200 -> 200
      [] k = StrPlus200 -> 200
      [] k = Str65535 -> 65535

\* C5: the response map of the converted operation has an entry for the
\* numeric code c if and only if some v2 response key parses as the unsigned
\* 16-bit code c; keys that do not parse contribute nothing, and the default
\* response slot is absent.
C5_ResponsesKeepNumericCodesOnly ==
    Converted =>
        LET responses == Output.responses.responses
        IN  /\ \A j \in DOMAIN responses : responses[j].key.kind = "Code"
            /\ {responses[j].key.value : j \in DOMAIN responses} =
                  {CodeDenoted(k) : k \in {x \in DOMAIN v2.responses : DenotesCode(x)}}
            /\ Cardinality(IndexMapKeys(responses)) = Len(responses)
            /\ Output.responses.default = None

\* The keys "200", "404" and "default" were converted.
C5_Witness ==
    /\ Converted
    /\ DOMAIN v2.responses = {Str200, Str404, StrDefault}
    /\ Len(Output.responses.responses) = 2

\* C6: the security of the converted operation is absent if and only if the
\* v2 list of security requirement sets is empty; otherwise it holds as many
\* sets in the same order, each with the same mapping of scheme name to
\* scope list.
C6_SecurityAbsentIffEmpty ==
    Converted =>
        /\ Output.security = None <=> v2.security = <<>>
        /\ v2.security # <<>> =>
              LET security == Unwrap(Output.security)
              IN  /\ Len(security) = Len(v2.security)
                  /\ \A j \in DOMAIN security :
                        /\ IndexMapKeys(security[j]) = DOMAIN v2.security[j]
                        /\ Len(security[j]) = Cardinality(DOMAIN v2.security[j])
                        /\ \A k \in DOMAIN v2.security[j] :
                              IndexMapGet(security[j], k) = v2.security[j][k]

\* Two different requirement sets, one of them with two schemes.
C6_Witness ==
    /\ Converted
    /\ Len(v2.security) = 2
    /\ v2.security[1] # v2.security[2]
    /\ Cardinality(DOMAIN v2.security[2]) = 2

\* The passthrough parameters of a list, converted, in their order.
RECURSIVE PassthroughOf(_)
PassthroughOf(ps) ==
    IF ps = <<>> THEN <<>>
    ELSE LET rest == PassthroughOf(Tail(ps))
             q == Head(ps)
         IN  IF q.kind = "Reference" THEN <<Reference(q.name)>> \o rest
             ELSE IF q.in_ \in {"path", "query", "header"}
                  THEN <<Item([location |-> q.in_, name |-> q.name,
                               required |-> q.required,
                               description |-> q.description])>> \o rest
                  ELSE rest

\* C7: the converted parameter list is exactly the sequence of the input
\* parameters that are direct references or have path, query or header
\* location, in their original order; no body or form parameter is in it
\* and no passthrough parameter is lost, duplicated or reordered.
C7_PassthroughInOrder ==
    /\ parameters = PassthroughOf(SubSeq(v2.parameters, 1, idx - 1))
    /\ Converted => Output.parameters = PassthroughOf(v2.parameters)

\* Two different passthrough parameters around a form parameter.
C7_Witness ==
    /\ Converted
    /\ Len(v2.parameters) = 3
    /\ IsPassthrough(v2.parameters[1])
    /\ IsForm(v2.parameters[2])
    /\ IsPassthrough(v2.parameters[3])
    /\ v2.parameters[1] # v2.parameters[3]
    /\ Len(Output.parameters) = 2

\* The request payload is the synthesized schema wrapped once per media type.
PayloadIsFormPerMediaType ==
    /\ v2.consumes # None
    /\ Output.request_body # None
    /\ Unwrap(Output.request_body).kind = "Item"
    /\ LET content == Unwrap(Output.request_body).value.content
           consumes == Unwrap(v2.consumes)
       IN  /\ Len(content) = Len(consumes)
           /\ IndexMapKeys(content) = {consumes[j].mime : j \in DOMAIN consumes}
           /\ \A j \in DOMAIN content :
                 /\ IsSynthesized(content[j].value.schema)
                 /\ Unwrap(content[j].value.schema).value.schema_kind.value = Unwrap(form_data)
                 /\ IndexMapKeys(Unwrap(form_data).properties) =
                       {v2.parameters[i].name : i \in FormFieldIndexes}

\* C8, as claimed: with no body parameter and at least one form parameter
\* (one that carries a schema), the synthesized object schema is the request
\* payload, with one content entry per accepted media type, each carrying it.
C8_FormPayloadPerMediaType ==
    (Converted /\ BodyIndexes = {} /\ FormFieldIndexes # {}) => PayloadIsFormPerMediaType

\* C8, amended: the same provided the accepted media types are declared.
C8_FormPayloadPerDeclaredMediaType ==
    (Converted /\ BodyIndexes = {} /\ FormFieldIndexes # {} /\ v2.consumes # None) =>
        PayloadIsFormPerMediaType

\* Two form fields and two declared media types, no body parameter.
C8_Witness ==
    /\ Converted
    /\ BodyIndexes = {}
    /\ Cardinality(FormFieldIndexes) >= 2
    /\ v2.consumes # None
    /\ Len(Unwrap(v2.consumes)) = 2
    /\ Len(Unwrap(Output.request_body).value.content) = 2

-----------------------------------------------------------------------------
(* Properties of the schema conversions *)

\* The formats that are valid for a data type that takes a format.
ValidFormats(data_type) ==
    CASE data_type = "Integer" -> {"Int32", "Int64"}
      [] data_type = "Number" -> {"Float", "Double"}
      [] data_type = "String" -> {"Byte", "Binary", "Date", "DateTime", "Password"}

HasInvalidFormat(x) ==
    /\ x.data_type # None
    /\ Unwrap(x.data_type) \in {"Integer", "Number", "String"}
    /\ x.format # None
    /\ Unwrap(x.format) \notin ValidFormats(Unwrap(x.data_type))

SchemaConverted == source.conv \in {"Schema", "BoxedSchema"} /\ result # None

ItemsConverted == source.conv = "Items" /\ result # None

\* C9: converting a v2 schema whose format is not valid for its data type
\* never aborts: the conversion completes, and the result carries an
\* unknown-format token holding the format's text (string data type) or an
\* absent format (integer and number data types).
C9_InvalidFormatNeverAborts ==
    (SchemaConverted /\ source.value.reference = None /\ HasInvalidFormat(source.value)) =>
        /\ ~IsPanic(Unwrap(result))
        /\ Unwrap(result).kind = "Item"
        /\ Unwrap(result).value.schema_kind.value.format =
              IF Unwrap(source.value.data_type) = "String"
              THEN Unknown(FormatToString(Unwrap(source.value.format)))
              ELSE Empty

\* An Items descriptor the conversion answers with the placeholder.
ItemsMalformed(it) ==
    \/ it.data_type = None
    \/ Unwrap(it.data_type) \in {"Object", "File"}
    \/ HasInvalidFormat(it)

\* C10: converting an Items descriptor that has no data type, has data type
\* object or file, or has a format not valid for its integer, number or
\* string data type returns a placeholder carrying an error message and never
\* aborts; every other Items descriptor converts to an inline schema of the
\* matching type.
C10_ItemsPlaceholderOrInline ==
    ItemsConverted =>
        LET it == source.value
            r == Unwrap(result)
        IN  /\ ~IsPanic(r)
            /\ IF ItemsMalformed(it)
               THEN r.kind = "Invalid" /\ Len(r.value) >= 1
               ELSE /\ r.kind = "Item"
                    /\ r.value.schema_kind.kind = "Type"
                    /\ r.value.schema_kind.value.type = Unwrap(it.data_type)

\* A string item with a format that only a string schema tolerates was
\* answered with the placeholder, in a build with debug assertions.
C10_Witness ==
    /\ ItemsConverted
    /\ debug_assertions
    /\ source.value.data_type = Some("String")
    /\ source.value.format = Some("Url")
    /\ Unwrap(result).kind = "Invalid"

-----------------------------------------------------------------------------
(* Vocabulary of the properties of the schema builder *)

Built == builder_pc = "done"

\* The field or element whose statement has just run, and the property it
\* was given.
LastField == fields.list[field_idx - 1]

NamedFieldInserted ==
    /\ builder_pc = "fields" /\ field_idx > 1
    /\ ~LastField.skip /\ ~LastField.flatten

ElementInserted ==
    /\ builder_pc = "elements" /\ field_idx > 1
    /\ ~LastField.skip /\ ~LastField.flatten

NamedFieldProperty_ == schema_raw.properties[FieldName(LastField, item_ast.serde)]

ElementProperty_ == schema_raw.properties[IndexToString(field_idx - 2)]

\* The field carries a description, an example, a priority, a visibility
\* gate or the collapsed mark.
CarriesMetadata(attrs) ==
    \/ Trim(attrs.docs) # ""
    \/ IsSome(attrs.example)
    \/ IsSome(attrs.priority)
    \/ IsSome(attrs.gated)
    \/ attrs.collapsed

MetadataKeys(attrs) ==
    {k \in {"x_fp_preview_gate", "x_fp_collapsed", "x_fp_priority"} :
        \/ k = "x_fp_preview_gate" /\ IsSome(attrs.gated)
        \/ k = "x_fp_collapsed" /\ attrs.collapsed
        \/ k = "x_fp_priority" /\ IsSome(attrs.priority)}

MetadataValue(attrs, k) ==
    CASE k = "x_fp_preview_gate" -> JString(Unwrap(attrs.gated))
      [] k = "x_fp_collapsed" -> JBool(TRUE)
      [] k = "x_fp_priority" -> JNumber(Unwrap(attrs.priority))

\* node holds the metadata of attrs, the given data_type, and nothing else.
IsMetadataOnly(node, attrs, data_type) ==
    node = [SchemaRawDefault EXCEPT
                !.data_type = data_type,
                !.description = DocsOption(Trim(attrs.docs)),
                !.example = IF IsSome(attrs.example)
                            THEN ExampleValue(Unwrap(attrs.example)) ELSE None,
                !.extensions = [k \in MetadataKeys(attrs) |-> MetadataValue(attrs, k)]]

\* property is the all_of of the schema of the type, untouched, and of a
\* node that holds the metadata only.
IsOverlay(property, attrs, schema_ref) ==
    /\ Len(property.all_of) = 2
    /\ [property EXCEPT !.all_of = <<>>] = SchemaRawDefault
    /\ property.all_of[1] = schema_ref
    /\ IsMetadataOnly(property.all_of[2], attrs, schema_ref.data_type)

\* property is the schema of the type with the metadata written on it.
IsMergedInPlace(property, attrs, schema_ref) ==
    /\ property.all_of = schema_ref.all_of
    /\ property.description =
            IF Trim(attrs.docs) # "" THEN Some(Trim(attrs.docs)) ELSE schema_ref.description
    /\ property.example =
            IF IsSome(attrs.example)
            THEN ExampleValue(Unwrap(attrs.example)) ELSE schema_ref.example
    /\ DOMAIN property.extensions = DOMAIN schema_ref.extensions \cup MetadataKeys(attrs)
    /\ \A k \in DOMAIN property.extensions :
            property.extensions[k] =
                IF k \in MetadataKeys(attrs)
                THEN MetadataValue(attrs, k) ELSE schema_ref.extensions[k]
    /\ [property EXCEPT !.description = None, !.example = None, !.extensions = <<>>]
            = [schema_ref EXCEPT !.description = None, !.example = None, !.extensions = <<>>]

MetadataRule(property, attrs) ==
    CarriesMetadata(attrs) =>
        IF IsSome(attrs.ty.raw_schema.name)
        THEN IsOverlay(property, attrs, SchemaRef(attrs))
        ELSE IsMergedInPlace(property, attrs, SchemaRef(attrs))

\* C11, for the named fields of a struct or variant only: the property of a
\* field that carries metadata is the overlay when the schema of its type is
\* named, and the schema of its type with the metadata merged in place when
\* it is not.
NamedFieldMetadataRule ==
    NamedFieldInserted => MetadataRule(NamedFieldProperty_, LastField)

\* C11: whenever a field carries metadata and the schema of its type is
\* named, its property is an all_of of exactly two nodes, the schema of the
\* type unmodified and a fresh node with the metadata and the data_type only;
\* when the schema of its type has no name the metadata is merged into it in
\* place and no all_of is made.  This is stated for the named fields of a
\* struct and for the elements of a tuple struct.
C11_MetadataOverlay ==
    /\ NamedFieldInserted => MetadataRule(NamedFieldProperty_, LastField)
    /\ ElementInserted => MetadataRule(ElementProperty_, LastField)

\* A documented element of a tuple struct, the schema of whose type is named,
\* has been given its property.
C11_Witness ==
    /\ ElementInserted
    /\ CarriesMetadata(LastField)
    /\ IsSome(LastField.ty.raw_schema.name)

-----------------------------------------------------------------------------
(* The properties of a struct with named fields *)

NamedStruct == item_ast.data.kind = "Struct" /\ fields.kind = "Named"

\* The positions of the fields that are not skipped.
Kept == {i \in DOMAIN fields.list : ~fields.list[i].skip}

Flattens == \E i \in Kept : fields.list[i].flatten

\* The names the kept fields are serialized under.
KeptName(i) == FieldName(fields.list[i], item_ast.serde)

KeptNames == {KeptName(i) : i \in Kept}

DistinctNames == \A i, j \in Kept : KeptName(i) = KeptName(j) => i = j

\* C12 as stated: the schema built for a struct with N named fields that are
\* not skipped has exactly N properties.
C12_OnePropertyPerField ==
    Built /\ NamedStruct =>
        Cardinality(DOMAIN schema_raw.properties) = Cardinality(Kept)

\* C12, amended: when none of the fields that are not skipped is flattened,
\* the properties of the built schema are exactly the names of the fields
\* that are not skipped, N of them when these names are distinct, and the
\* required set holds no other name: a skipped field gives no property and
\* no required entry.
C12_PropertiesOfKeptFields ==
    Built /\ NamedStruct /\ ~Flattens =>
        /\ DOMAIN schema_raw.properties = KeptNames
        /\ DistinctNames => Cardinality(DOMAIN schema_raw.properties) = Cardinality(Kept)
        /\ schema_raw.required \subseteq KeptNames

\* A struct with a skipped field and a field that is a property has been
\* built.
C12_Witness ==
    /\ Built /\ NamedStruct /\ ~Flattens /\ DistinctNames
    /\ Cardinality(Kept) = 1
    /\ Len(fields.list) = 2
    /\ fields.list[1].ty.required

-----------------------------------------------------------------------------
(* The required set *)

\* A tuple struct with several elements: each element is a property.
TupleStructOfSeveral ==
    item_ast.data.kind = "Struct" /\ fields.kind = "Unnamed" /\ Len(fields.list) # 1

\* The key of the property of the field at position i.
PropertyName(i) ==
    IF fields.kind = "Named" THEN KeptName(i) ELSE IndexToString(i - 1)

\* The type is required by default or the field has the required override,
\* and the field does not have the optional override.
RequiredByRule(attrs) ==
    (attrs.ty.required \/ attrs.required) /\ ~attrs.optional

\* C13 as stated: the name of a field that is neither skipped nor flattened
\* is in the required set of the built schema exactly when the type is
\* required by default or the field has the required override, and the field
\* has not the optional override.
C13_RequiredIffRule ==
    Built /\ (NamedStruct \/ TupleStructOfSeveral) =>
        \A i \in Kept :
            ~fields.list[i].flatten =>
                (PropertyName(i) \in schema_raw.required <=> RequiredByRule(fields.list[i]))

\* C13, amended: the rule decides whether the name is in the required set of
\* the schema that receives the property of the field, which is the built
\* schema when no field is flattened, provided no two fields are serialized
\* under one name.
C13_RequiredIffRuleWhereInserted ==
    /\ NamedFieldInserted /\ DistinctNames =>
        (FieldName(LastField, item_ast.serde) \in schema_raw.required
            <=> RequiredByRule(LastField))
    /\ ElementInserted =>
        (IndexToString(field_idx - 2) \in schema_raw.required <=> RequiredByRule(LastField))
    /\ Built /\ (NamedStruct \/ TupleStructOfSeveral) /\ ~Flattens /\ DistinctNames =>
        \A i \in Kept :
            PropertyName(i) \in schema_raw.required <=> RequiredByRule(fields.list[i])

\* A field with both overrides, of a type required by default, has been given
\* its property.
C13_Witness ==
    /\ NamedFieldInserted /\ DistinctNames
    /\ LastField.required /\ LastField.optional /\ LastField.ty.required
    /\ FieldName(LastField, item_ast.serde) \notin schema_raw.required

-----------------------------------------------------------------------------
(* The shape of the schema of an enum *)

IsEnum == item_ast.data.kind = "Enum"

\* The variant at position i of those that are not skipped holds no data.
IsUnit(i) == variants[i].fields.kind = "Unit"

HasUnit == \E i \in DOMAIN variants : IsUnit(i)

HasData == \E i \in DOMAIN variants : ~IsUnit(i)

\* The marks of the plain string enum: the data type string, values in enum_.
TypedString == schema_raw.data_type = Some("String")

ListsValues == schema_raw.enum_ # <<>>

\* C14: under each tagging, the schema built for an enum with a unit variant
\* and a variant with data, neither skipped, has not the data type string
\* and lists no value in enum_; a built schema of an enum that has one of
\* these marks is that of an enum whose variants that are not skipped are
\* all units, tagged externally or untagged.
C14_PlainStringEnumOnlyForUnits ==
    Built /\ IsEnum =>
        /\ HasUnit /\ HasData => ~TypedString /\ ~ListsValues
        /\ TypedString \/ ListsValues => ~HasData /\ Tagging \in {"External", "Untagged"}

\* An externally tagged enum with a unit variant and a variant with data has
\* been built.
C14_Witness ==
    /\ Built /\ IsEnum
    /\ Tagging = "External"
    /\ Len(variants) = 2 /\ IsUnit(1) /\ ~IsUnit(2)
    /\ Len(schema_raw.any_of) = 2

-----------------------------------------------------------------------------
(* The schemas of the variants *)

\* The schema that any_of holds for the variant at position i of those that
\* are not skipped, the name the variant is serialized under, and the schema
\* of the data that the variant holds.
VariantNode(i) == schema_raw.any_of[i]

RenderedName(i) == VariantName(variants[i], item_ast.serde)

VariantData(i) == InnerGen(variants[i], item_ast.serde)

EmptyObject == [SchemaRawDefault EXCEPT !.data_type = Some("Object")]

\* The enum is not made of simple constants only, and all its variants have
\* their schema.
BuiltAnyOf ==
    /\ Built /\ IsEnum
    /\ ~OnlySimpleConstants(item_ast.data, item_ast.serde)
    /\ Len(schema_raw.any_of) = Len(variants)

\* node is an object with the one property name, required, whose schema is
\* value.
IsSingleProperty(node, name, value) ==
    node = [SchemaRawDefault EXCEPT
                !.data_type = Some("Object"),
                !.properties = name :> value,
                !.required = {name}]

\* C15 as stated: under external tagging, when a variant holds data, every
\* variant that is not skipped, a unit included, is an object with exactly
\* one property named after the variant, required, whose schema is that of
\* the data of the variant, the empty object for a unit.
C15_ExternalOnePropertyPerVariant ==
    Built /\ IsEnum /\ Tagging = "External" /\ HasData =>
        /\ Len(schema_raw.any_of) = Len(variants)
        /\ \A i \in DOMAIN variants :
            IsSingleProperty(VariantNode(i), RenderedName(i),
                             IF IsUnit(i) THEN EmptyObject ELSE VariantData(i))

\* C15, amended: under external tagging, when a variant holds data, every
\* variant with data that is not skipped is an object with exactly one
\* property named after the variant, required, whose schema is that of the
\* data of the variant; a unit variant is the literal constant equal to its
\* name, with the description of the variant, and is not an object.
C15_ExternalOnePropertyPerDataVariant ==
    Built /\ IsEnum /\ Tagging = "External" /\ HasData =>
        /\ Len(schema_raw.any_of) = Len(variants)
        /\ \A i \in DOMAIN variants :
            IF IsUnit(i)
            THEN VariantNode(i) =
                    [SchemaRawDefault EXCEPT
                        !.const_ = Some(JString(RenderedName(i))),
                        !.description = DocsOption(Trim(variants[i].docs))]
            ELSE IsSingleProperty(VariantNode(i), RenderedName(i), VariantData(i))

\* An externally tagged enum with a variant with data followed by a unit
\* variant has been built.
C15_Witness ==
    /\ Built /\ IsEnum
    /\ Tagging = "External"
    /\ Len(variants) = 2 /\ ~IsUnit(1) /\ IsUnit(2)
    /\ DOMAIN VariantNode(1).properties = {RenderedName(1)}
    /\ IsSome(VariantNode(2).const_)


\* The name of the enum as the variants see it, the tag of the tagging, and
\* the name synthesized for the variant at position i.
UnionName ==
    IF IsSome(OpenApiName(item_ast)) THEN Unwrap(OpenApiName(item_ast)) ELSE ""

Tag == item_ast.serde.enum_tag_type.tag

SynthesizedName(i) == UnionName \o variants[i].ident

\* The names of the properties of the named fields of the variant at
\* position i, none of which is flattened.
HoldsNamedFields(i) ==
    /\ variants[i].fields.kind = "Named"
    /\ \A k \in DOMAIN variants[i].fields.list : ~variants[i].fields.list[k].flatten

VariantFieldNames(i) ==
    {FieldName(variants[i].fields.list[k], item_ast.serde) :
        k \in {k \in DOMAIN variants[i].fields.list : ~variants[i].fields.list[k].skip}}

\* The tag property of node is the literal constant name, with the top
\* display priority, and is required.
HasTag(node, tag, name) ==
    /\ tag \in DOMAIN node.properties
    /\ node.properties[tag].const_ = Some(JString(name))
    /\ "x_fp_priority" \in DOMAIN node.properties[tag].extensions
    /\ node.properties[tag].extensions["x_fp_priority"] = JNumber(0)
    /\ tag \in node.required

\* node holds, beside the tag, the properties of the data of the variant at
\* position i, and nothing else.
HoldsDataBesideTag(node, tag, i) ==
    /\ DOMAIN node.properties = DOMAIN VariantData(i).properties \cup {tag}
    /\ \A k \in DOMAIN VariantData(i).properties \ {tag} :
            node.properties[k] = VariantData(i).properties[k]
    /\ node.required = VariantData(i).required \cup {tag}
    /\ IsUnit(i) => DOMAIN node.properties = {tag}
    /\ HoldsNamedFields(i) => DOMAIN node.properties = VariantFieldNames(i) \cup {tag}

\* node has the name synthesized for the variant at position i and the
\* reference to the definition of that name.
HasSynthesizedName(node, i) ==
    /\ node.name = Some(SynthesizedName(i))
    /\ node.reference = Some("#/definitions/" \o SynthesizedName(i))

Content == item_ast.serde.enum_tag_type.content

\* C17: under adjacent tagging every variant with data that is not skipped
\* is an object with exactly the two properties tag, the literal constant of
\* the name of the variant, and content, the schema of the data of the
\* variant, both required; a unit variant is an object with the tag property
\* alone, required, and no content property.
C17_AdjacentTagAndContent ==
    Built /\ IsEnum /\ Tagging = "Adjacent" =>
        /\ Len(schema_raw.any_of) = Len(variants)
        /\ \A i \in DOMAIN variants :
            /\ VariantNode(i).data_type = Some("Object")
            /\ Tag \in DOMAIN VariantNode(i).properties
            /\ VariantNode(i).properties[Tag].const_ = Some(JString(RenderedName(i)))
            /\ IF IsUnit(i)
               THEN /\ DOMAIN VariantNode(i).properties = {Tag}
                    /\ VariantNode(i).required = {Tag}
               ELSE /\ DOMAIN VariantNode(i).properties = {Tag, Content}
                    /\ VariantNode(i).properties[Content] = VariantData(i)
                    /\ VariantNode(i).required = {Tag, Content}

\* An adjacently tagged enum with a unit variant and a variant with one
\* unnamed element has been built.
C17_Witness ==
    /\ Built /\ IsEnum /\ Tagging = "Adjacent"
    /\ Len(variants) = 2
    /\ IsUnit(1) /\ variants[2].fields.kind = "Unnamed"
    /\ DOMAIN VariantNode(1).properties = {"type"}
    /\ DOMAIN VariantNode(2).properties = {"type", "data"}
    /\ VariantNode(2).required = {"type", "data"}

-----------------------------------------------------------------------------
(* Names and references *)

\* The nodes of a schema: the schema, and the nodes of its properties, of
\* its items and of the members of all_of and any_of.
RECURSIVE NodesOf(_)
NodesOf(s) ==
    {s} \cup UNION {NodesOf(s.properties[k]) : k \in DOMAIN s.properties}
        \cup UNION {NodesOf(s.items[i]) : i \in DOMAIN s.items}
        \cup UNION {NodesOf(s.all_of[i]) : i \in DOMAIN s.all_of}
        \cup UNION {NodesOf(s.any_of[i]) : i \in DOMAIN s.any_of}

\* node is serialized as a pointer to the definition called name.
PointsTo(node, name) == node.reference = Some("#/definitions/" \o name)

\* The names of the inline types that the built type may hold: its own,
\* when it is inline, and that of Inl.
InlineNames ==
    {SchemaName(InlItem)} \cup (IF item_ast.inline THEN {SchemaName(item_ast)} ELSE {})

\* The names that the variants of the built type are given, when it is an
\* inline enum.
SynthesizedNames ==
    IF item_ast.inline /\ IsEnum /\ Tagging \in {"Internal", "Adjacent"}
    THEN {SynthesizedName(i) : i \in DOMAIN variants}
    ELSE {}

\* An inline type has no canonical name and the schema it builds has none.
InlineHasNoName ==
    /\ item_ast.kind = "DeriveInput" /\ item_ast.inline =>
            Apiv2SchemaOf(item_ast).name = None
    /\ Built /\ item_ast.inline => schema_raw.name = None

\* No node of what is built points to an inline type.
InlineNotPointedTo ==
    Built => \A node \in NodesOf(schema_raw) :
                \A name \in InlineNames : ~PointsTo(node, name)

\* C18 as stated: an inline type has no canonical name, the schema it builds
\* has no name, when it is a tuple of one element as well, and no node of
\* what is built points to the inline type or to a definition synthesized
\* from it.
C18_InlineNeverNamedNorPointedTo ==
    /\ InlineHasNoName
    /\ InlineNotPointedTo
    /\ Built => \A node \in NodesOf(schema_raw) :
                    \A name \in SynthesizedNames : ~PointsTo(node, name)


\* The names of the type arguments of the built type, those that have one,
\* in the order of declaration.
ArgumentNames ==
    LET named == SelectSeq(item_ast.type_params, LAMBDA ty : IsSome(ty.name))
    IN [i \in DOMAIN named |-> Unwrap(named[i].name)]

\* The first n of names, separated by a comma and a space.
RECURSIVE CommaSeparated(_, _)
CommaSeparated(names, n) ==
    IF n = 0 THEN ""
    ELSE IF n = 1 THEN names[1]
    ELSE CommaSeparated(names, n - 1) \o ", " \o names[n]

\* The declared identifier, or the rename when there is one.
DeclaredName ==
    IF item_ast.rename # None THEN Unwrap(item_ast.rename) ELSE item_ast.ident

\* Type arguments with the same names, one by one.
SameArgumentNames(a, b) ==
    /\ Len(a) = Len(b)
    /\ \A i \in DOMAIN a : a[i].name = b[i].name

-----------------------------------------------------------------------------
(* The conversion of an operation and the building of a schema, either one *)

ProgramInit == Init \/ BuilderInit

ProgramNext == Next \/ BuilderNext

ProgramSpec == ProgramInit /\ [][ProgramNext]_vars

\* Every required name of node is a key of its properties.
RequiredWithinProperties(node) == node.required \subseteq DOMAIN node.properties

\* C20: in every state of the scan of the parameters the required names of
\* the synthesized form schema are among the names of its properties, and in
\* every state of the building of a schema every required name of every
\* node built so far, the schema of each variant of a tagged enum included,
\* is a key of the properties of that node.
C20_RequiredSubsetOfProperties ==
    /\ form_data # None =>
            Range(Unwrap(form_data).required) \subseteq
                IndexMapKeys(Unwrap(form_data).properties)
    /\ builder_pc \notin {"idle", "begin"} =>
            \A node \in NodesOf(schema_raw) : RequiredWithinProperties(node)

\* The scan has ended with a form schema of two properties, one of them
\* required.
C20_Witness ==
    /\ ScanDone
    /\ form_data # None
    /\ Len(Unwrap(form_data).required) = 1
    /\ Cardinality(IndexMapKeys(Unwrap(form_data).properties)) = 2

-----------------------------------------------------------------------------
(* The scan of the parameters, step by step *)

\* The names of the properties and the required names of the synthesized
\* form schema, none before it exists.
FormProperties ==
    IF form_data = None THEN {} ELSE IndexMapKeys(Unwrap(form_data).properties)

FormRequired ==
    IF form_data = None THEN {} ELSE Range(Unwrap(form_data).required)

\* C21: no step of the conversion takes a name out of the properties or out
\* of the required names of the synthesized form schema, nor drops the
\* schema, whether the step meets a form parameter of a name already there,
\* a body parameter or anything else.
C21_FormSchemaOnlyGrows ==
    [][/\ FormProperties \subseteq FormProperties'
       /\ FormRequired \subseteq FormRequired'
       /\ form_data # None => form_data' # None]_vars

\* A required form parameter, then a form parameter of the same name, then a
\* body parameter have been scanned: the form schema still has the property
\* and the required name.
C21_Witness ==
    /\ pc = "scan" /\ idx = 4
    /\ FormFieldIndexes = {1, 2} /\ BodyIndexes = {3}
    /\ v2.parameters[1].name = v2.parameters[2].name
    /\ v2.parameters[1].required
    /\ FormProperties = {v2.parameters[1].name}
    /\ FormRequired = {v2.parameters[1].name}
    /\ request_body # None

-----------------------------------------------------------------------------
(* The variants of an enum, one by one *)

\* The declared variants that are not marked to be skipped, in the order of
\* declaration.
KeptVariants == SelectSeq(item_ast.data.variants, LAMBDA v : ~v.skip)

\* The enum is in the case of the plain string enum: every kept variant is a
\* unit and the tagging is external or untagged.
PlainStringEnum ==
    /\ Tagging \in {"External", "Untagged"}
    /\ \A i \in DOMAIN KeptVariants : KeptVariants[i].fields.kind = "Unit"

\* The name that the variant v is serialized under: its own rename, else the
\* renaming rule of the enum applied to its identifier, else its identifier.
SerializedName(v) ==
    IF v.rename # None THEN Unwrap(v.rename)
    ELSE IF item_ast.serde.rename # None
         THEN SerdeRenameApply(Unwrap(item_ast.serde.rename), v.ident)
         ELSE v.ident

\* C22: outside the case of the plain string enum, any_of of the built schema
\* has exactly one entry per variant that is not skipped, in the order of
\* declaration, and enum_ is empty; in the case of the plain string enum,
\* enum_ has exactly one value per variant that is not skipped, the name it
\* is serialized under, and any_of is empty.
C22_OneEntryPerVariant ==
    Built /\ IsEnum =>
        IF PlainStringEnum
        THEN /\ schema_raw.any_of = <<>>
             /\ schema_raw.enum_ =
                    [i \in DOMAIN KeptVariants |-> JString(SerializedName(KeptVariants[i]))]
        ELSE /\ schema_raw.enum_ = <<>>
             /\ schema_raw.any_of =
                    [i \in DOMAIN KeptVariants |->
                        VariantSchema(KeptVariants[i], item_ast.serde, UnionName)]

\* An enum with a skipped variant before a kept one has been built.
C22_Witness ==
    /\ Built /\ IsEnum
    /\ Len(item_ast.data.variants) = 2
    /\ item_ast.data.variants[1].skip /\ ~item_ast.data.variants[2].skip
    /\ item_ast.data.variants[2].fields.kind = "Named"
    /\ Len(schema_raw.any_of) = 1 /\ schema_raw.enum_ = <<>>

-----------------------------------------------------------------------------
(* The tagging that the attributes of an enum declare *)

\* The places, attribute and nested meta, where a #[serde(..)] attribute
\* holds the nested meta m, and the last of them in reading order.
SerdePlaces ==
    UNION {{<<a, m>> : m \in DOMAIN item_attrs[a].nested} :
                a \in {a \in DOMAIN item_attrs : item_attrs[a].path = "serde"}}

MetaAt(pl) == item_attrs[pl[1]].nested[pl[2]]

Later(a, b) == a[1] > b[1] \/ (a[1] = b[1] /\ a[2] >= b[2])

\* The value that the configuration declares for `name = "value"`, the last
\* one when it is declared more than once.
Declared_(name) ==
    LET places == {pl \in SerdePlaces :
                        /\ MetaAt(pl).kind = "NameValue" /\ MetaAt(pl).name = name
                        /\ MetaAt(pl).lit.kind = "Str"}
    IN IF places = {} THEN None
       ELSE Some(MetaAt(CHOOSE pl \in places : \A q \in places : Later(pl, q)).lit.value)

DeclaredTag == Declared_("tag")

DeclaredContent == Declared_("content")

UntaggedMarker ==
    \E pl \in SerdePlaces : MetaAt(pl).kind = "Path" /\ MetaAt(pl).name = "untagged"

FromItemAttrsDone == attrs_pc = "done"

\* C23: the tagging is adjacent when a tag and a content key are declared,
\* internal when a tag alone is, untagged when no tag is declared and the
\* untagged marker is there, external otherwise; so a tag wins over the
\* untagged marker wherever either stands, a content key without a tag
\* changes nothing, and nothing else of the attributes matters.
C23_TaggingFromConfiguration ==
    FromItemAttrsDone =>
        props.enum_tag_type =
            IF DeclaredTag # None /\ DeclaredContent # None
                THEN Adjacent(Unwrap(DeclaredTag), Unwrap(DeclaredContent))
            ELSE IF DeclaredTag # None THEN Internal(Unwrap(DeclaredTag))
            ELSE IF UntaggedMarker THEN Untagged
            ELSE External

\* A tag, then the untagged marker, then a content key in an attribute of
\* their own each have been read: the tagging is adjacent.
C23_Witness ==
    /\ FromItemAttrsDone
    /\ item_attrs = <<Attribute("serde", <<NameValue("tag", LitStr("kind"))>>),
                      Attribute("serde", <<Path("untagged")>>),
                      Attribute("serde", <<NameValue("content", LitStr("data"))>>)>>
    /\ props.enum_tag_type = Adjacent("kind", "data")

-----------------------------------------------------------------------------
(* Flattened fields *)

\* The generated code is about to handle a named field that is not skipped.
AtKeptNamedField ==
    /\ builder_pc = "fields" /\ field_idx <= Len(fields.list)
    /\ ~field.skip

\* The schema of the type of the field at hand: the built schema when the
\* field is marked inline, the pointer to the type otherwise.
FieldSchema ==
    IF field.inline \/ field.ty.name = None
    THEN field.ty.raw_schema
    ELSE [field.ty.raw_schema EXCEPT
            !.reference = Some("#/definitions/" \o Unwrap(field.ty.name))]

\* C24: the step of a flattened field replaces the accumulated schema by a
\* fresh node whose all_of is the schema accumulated so far followed by the
\* schema of the field, with no property and no required name; the step of a
\* later field that is not flattened leaves all_of alone and inserts its
\* property into that node.
C24_FlattenedFieldWraps ==
    [][AtKeptNamedField =>
        IF field.flatten
        THEN /\ schema_raw' = [SchemaRawDefault EXCEPT !.all_of = <<schema_raw, FieldSchema>>]
             /\ schema_raw'.properties = <<>> /\ schema_raw'.required = {}
        ELSE /\ schema_raw'.all_of = schema_raw.all_of
             /\ DOMAIN schema_raw'.properties =
                    DOMAIN schema_raw.properties \cup {KeptName(field_idx)}]_vars

\* A struct of a flattened field followed by a required field has been
\* built: the property of the second field is beside all_of, and the first
\* member of all_of has no property.
C24_Witness ==
    /\ Built /\ NamedStruct
    /\ Len(fields.list) = 2
    /\ fields.list[1].flatten /\ ~fields.list[1].skip
    /\ ~fields.list[2].flatten /\ ~fields.list[2].skip
    /\ Len(schema_raw.all_of) = 2
    /\ schema_raw.all_of[1].properties = <<>>
    /\ DOMAIN schema_raw.properties = {KeptName(2)}
    /\ schema_raw.required = {KeptName(2)}

-----------------------------------------------------------------------------
(* References and inline schemas *)

\* A schema node that has a reference converts to what the reference alone
\* converts to: nothing else of the node is in the result.
ReferenceNodeIsPureReference ==
    (SchemaConverted /\ source.value.reference # None) =>
        /\ Unwrap(result) = V2ReferenceInto(Unwrap(source.value.reference))
        /\ Unwrap(result).kind = "Reference"

\* A schema node without a reference does not convert to a reference.
InlineNodeIsNoReference ==
    (SchemaConverted /\ source.value.reference = None) =>
        Unwrap(result).kind # "Reference"

\* C25 as stated: a schema node that has a reference converts to the pure
\* reference to that target, with nothing of its data type, properties,
\* required names, composition lists, description, example or extensions;
\* a node without a reference always converts to an inline item.
C25_ReferenceOrInlineItem ==
    /\ ReferenceNodeIsPureReference
    /\ (SchemaConverted /\ source.value.reference = None) =>
            Unwrap(result).kind = "Item"


-----------------------------------------------------------------------------
(* The request payload of the converted operation *)

\* The parameters of the output that came from a v2 parameter by value.
OutputLocations ==
    {Output.parameters[j].value.location :
        j \in {i \in DOMAIN Output.parameters : Output.parameters[i].kind = "Item"}}

\* C26: the converted operation has a request payload if and only if it has
\* a body parameter, or it has a form parameter with a schema and its accepted
\* media types are declared; with form parameters and no body parameter but
\* undeclared media types the payload is absent and the synthesized schema is
\* nowhere in the output, and the form parameters are never in the output's
\* parameter list.
C26_PayloadIffBodyOrDeclaredForm ==
    Converted =>
        /\ Output.request_body # None <=>
              \/ BodyIndexes # {}
              \/ FormFieldIndexes # {} /\ v2.consumes # None
        /\ (FormIndexes # {} /\ BodyIndexes = {} /\ v2.consumes = None) =>
              /\ Output.request_body = None
              /\ PayloadSchemas = {}
        /\ "formData" \notin OutputLocations
        /\ Len(Output.parameters) =
              Cardinality({j \in DOMAIN v2.parameters : IsPassthrough(v2.parameters[j])})

\* Two form fields around a query parameter, media types undeclared: a schema
\* was synthesized, no payload came out, and only the query parameter is left.
C26_Witness ==
    /\ Converted
    /\ BodyIndexes = {}
    /\ Cardinality(FormFieldIndexes) = 2
    /\ v2.consumes = None
    /\ IsSome(form_data)
    /\ Len(Unwrap(form_data).properties) = 2
    /\ Output.request_body = None
    /\ Len(Output.parameters) = 1


-----------------------------------------------------------------------------
(* The kind of schema a node without a reference converts to *)

\* The openapiv3 type a v2 data type is written as.
TypeOfDataType(data_type) == IF data_type = "File" THEN "String" ELSE data_type

\* An inline conversion result: a node without a reference went through.
InlineConverted ==
    /\ SchemaConverted
    /\ source.value.reference = None
    /\ Unwrap(result).kind = "Item"

OutputKind == Unwrap(result).value.schema_kind

IsEmptyObjectKind(kind) ==
    /\ kind.kind = "Type"
    /\ kind.value.type = "Object"
    /\ kind.value.properties = IndexMapNew
    /\ kind.value.required = <<>>

\* C27: for a node without a reference the output kind follows the priority
\* data_type, any_of, all_of, string const, and is otherwise the empty object;
\* a composition carries one member per entry and nothing of the node's own
\* properties and required set.
C27_KindByFixedPriority ==
    InlineConverted =>
        LET s == source.value
            kind == OutputKind
        IN  CASE s.data_type # None ->
                    /\ kind.kind = "Type"
                    /\ kind.value.type = TypeOfDataType(Unwrap(s.data_type))
              [] s.data_type = None /\ s.any_of # <<>> ->
                    /\ kind.kind = "AnyOf"
                    /\ DOMAIN kind = {"kind", "value"}
                    /\ kind.value = [j \in DOMAIN s.any_of |-> SchemaFrom(s.any_of[j])]
              [] s.data_type = None /\ s.any_of = <<>> /\ s.all_of # <<>> ->
                    /\ kind.kind = "AllOf"
                    /\ DOMAIN kind = {"kind", "value"}
                    /\ kind.value = [j \in DOMAIN s.all_of |-> SchemaFrom(s.all_of[j])]
              [] /\ s.data_type = None /\ s.any_of = <<>> /\ s.all_of = <<>>
                 /\ s.const_ # None /\ Unwrap(s.const_).kind = "String" ->
                    /\ kind.kind = "Type"
                    /\ kind.value.type = "String"
                    /\ kind.value.enumeration = <<Some(Unwrap(s.const_).value)>>
              [] OTHER -> IsEmptyObjectKind(kind)

\* A node that sets any_of, all_of and a string const together with its own
\* properties and required set, and no data_type: any_of was chosen.
C27_Witness ==
    /\ InlineConverted
    /\ source.value.data_type = None
    /\ Len(source.value.any_of) = 2
    /\ source.value.all_of # <<>>
    /\ source.value.const_ # None
    /\ source.value.required # {}
    /\ OutputKind.kind = "AnyOf"
    /\ Len(OutputKind.value) = 2


-----------------------------------------------------------------------------
(* The fields of the operation that are copied or reset *)

\* C29: the converted operation has the tags, summary, description,
\* operation id and deprecated flag of the v2 operation, and absent external
\* docs, no servers and no extensions, whatever the v2 extensions were.
C29_MetadataCopiedRestReset ==
    Converted =>
        /\ Output.tags = v2.tags
        /\ Output.summary = v2.summary
        /\ Output.description = v2.description
        /\ Output.operation_id = v2.operation_id
        /\ Output.deprecated = v2.deprecated
        /\ Output.external_docs = None
        /\ Output.servers = <<>>
        /\ Output.extensions = IndexMapNew

\* A deprecated operation with two tags, a description, no operation id and
\* an extension has been converted.
C29_Witness ==
    /\ Converted
    /\ Len(v2.tags) = 2
    /\ v2.description # None
    /\ v2.operation_id = None
    /\ v2.deprecated
    /\ v2.extensions # <<>>
    /\ Output.deprecated
    /\ Len(Output.tags) = 2


-----------------------------------------------------------------------------
(* Type arguments without a name *)

\* Type arguments that differ, if at all, where neither has a name.
DifferOnlyInUnnamed(a, b) ==
    /\ Len(a) = Len(b)
    /\ \A i \in DOMAIN a : a[i] = b[i] \/ (a[i].name = None /\ b[i].name = None)

UnnamedArguments == {i \in DOMAIN item_ast.type_params : item_ast.type_params[i].name = None}

\* C30: in the name of a generic type the type arguments without a name add
\* nothing to the joined list of argument names, and the same generic type
\* built with type arguments that differ only where they have no name has
\* the same canonical name.
C30_UnnamedArgumentsLeaveNoTrace ==
    (Built /\ ~item_ast.inline /\ Len(item_ast.type_params) > 0) =>
        /\ schema_raw.name =
              Some(DeclaredName \o "<"
                      \o CommaSeparated(ArgumentNames,
                            Len(item_ast.type_params) - Cardinality(UnnamedArguments))
                      \o ">")
        /\ \A n \in 1..MaxTypeParams :
           \A args \in [1..n -> TypeArguments] :
                DifferOnlyInUnnamed(args, item_ast.type_params) =>
                    OpenApiName([item_ast EXCEPT !.type_params = args]) = schema_raw.name

\* Page<Pet, Inl> has been built: its name lists Pet alone, as the name of
\* Page<Pet, String> does.
C30_Witness ==
    /\ Built /\ ~item_ast.inline
    /\ item_ast.ident = "Page" /\ item_ast.rename = None
    /\ item_ast.type_params = <<TypePet, TypeInl>>
    /\ schema_raw.name = Some("Page<Pet>")
    /\ OpenApiName([item_ast EXCEPT !.type_params = <<TypePet, TypeString>>]) = schema_raw.name


-----------------------------------------------------------------------------
(* The pairing of codes with descriptions and schemas *)

\* The attribute at index j declares a code.
DeclaresCode(j) ==
    /\ error_attrs[j].lit.kind = "Int"
    /\ \/ error_attrs[j].kind = "Lit"
       \/ error_attrs[j].kind = "NameValue" /\ error_attrs[j].name = "code"

\* The declarations of a code that is an unsigned 16-bit value, in order.
U16CodeIndexes ==
    SelectSeq([j \in DOMAIN error_attrs |-> j],
              LAMBDA j : DeclaresCode(j) /\ error_attrs[j].lit.value <= 65535)

AtDescription == Folding /\ IsNamed("description", "Str")

AtSchema == Folding /\ IsNamed("schema", "Str")

\* The codes declared before the attribute being read.
CodesBefore == {j \in 1..(error_idx - 1) : DeclaresCode(j)}

\* The step gives `part` of the most recently declared code the text of the
\* attribute being read, and changes nothing else of the list.
AttachesToLatest(part) ==
    /\ Len(code_list') = Len(code_list)
    /\ \A j \in 1..(Len(code_list) - 1) : code_list'[j] = code_list[j]
    /\ code_list'[Len(code_list)] =
          [code_list[Len(code_list)] EXCEPT ![part] = Some(LitStrValue(error_attr.lit))]
    /\ code_list'[Len(code_list)].span = Max(CodesBefore)

\* The step reports an error at the attribute being read and leaves the
\* list as it is.
ReportedAndDropped ==
    /\ code_list' = code_list
    /\ Len(diagnostics') > Len(diagnostics)
    /\ SubSeq(diagnostics', 1, Len(diagnostics)) = diagnostics
    /\ diagnostics'[Len(diagnostics')] = Diagnostic("error", error_idx)

\* The step that ends the fold leaves one entry per declared u16 code, in
\* the order of declaration.
MapHasDeclaredCodes ==
    (errors_pc = "fold" /\ errors_pc' = "done") =>
        /\ Len(error_map') = Len(U16CodeIndexes)
        /\ \A j \in DOMAIN error_map' :
              error_map'[j][1] = error_attrs[U16CodeIndexes[j]].lit.value

\* C28, as claimed: every description and every schema attribute that has a
\* code before it goes to the most recently declared code and to no other,
\* one that has none before it is reported as an error and goes nowhere, and
\* the error map has one entry per code that is a u16, in declaration order.
C28_EachAttachesToLatestCode ==
    [][/\ (AtDescription /\ CodesBefore # {}) => AttachesToLatest("description")
       /\ (AtSchema /\ CodesBefore # {}) => AttachesToLatest("schema")
       /\ ((AtDescription \/ AtSchema) /\ CodesBefore = {}) => ReportedAndDropped
       /\ MapHasDeclaredCodes]_vars

\* C28, amended: the same for a schema attribute whose text is one
\* identifier; one whose text is not is reported as an error and goes
\* nowhere, wherever it stands.
C28_WellFormedAttachesToLatestCode ==
    [][/\ (AtDescription /\ CodesBefore # {}) => AttachesToLatest("description")
       /\ (AtSchema /\ CodesBefore # {} /\ ParseIdent(error_attr.lit) # None) =>
              AttachesToLatest("schema")
       /\ (AtSchema /\ ParseIdent(error_attr.lit) = None) => ReportedAndDropped
       /\ ((AtDescription \/ AtSchema) /\ CodesBefore = {}) => ReportedAndDropped
       /\ MapHasDeclaredCodes]_vars

\* Two codes and then a description: the map has both codes in order, the
\* second with the description and the first with its canonical reason.
C28_Witness ==
    /\ errors_pc = "done"
    /\ Len(error_attrs) = 3
    /\ DeclaresCode(1) /\ DeclaresCode(2)
    /\ error_attrs[3].name = "description"
    /\ error_attrs[1] # error_attrs[2]
    /\ Len(error_map) = 2
    /\ error_map[1][2] = CanonicalReason(error_map[1][1])
    /\ error_map[2][2] = LitStrValue(error_attrs[3].lit)
    /\ error_map[1][2] # error_map[2][2]

====
